---- MODULE Spec2Model ----
(***************************************************************************)
(* A model of the extractors of youtube_dl/extractor: appletrailers.py,    *)
(* livestreamfails.py, nrk.py and rai.py.  One extraction call runs at a   *)
(* time: `ie' names the handler that is running, `inp' holds its inputs,   *)
(* `loc' its local variables, `out' its outcome (a returned value or a     *)
(* raised exception) and `log' the requests it has issued so far;          *)
(* `sections' is the class attribute AppleTrailersSectionIE._SECTIONS.      *)
(*                                                                         *)
(* Python values: None is the empty tuple and a present value v is <<v>>;  *)
(* a character string that the code splits, scans or pads is a sequence of *)
(* one-character strings; a string that is only compared or concatenated   *)
(* is a TLA+ string.  A float is the decimal number n / 10^d that    *)
(* a double is, inf or nan.                                                *)
(***************************************************************************)
EXTENDS Integers, Sequences, FiniteSets, TLC

VARIABLES ie, pc, inp, loc, out, log, sections

vars == <<ie, pc, inp, loc, out, log, sections>>

----------------------------------------------------------------------------
(* Python values *)

None == <<>>

Some(v) == <<v>>

IsNone(o) == o = <<>>

Val(o) == o[1]

Opt(S) == {None} \cup {Some(v) : v \in S}

NoOutcome == [kind |-> "none"]

Return(v) == [kind |-> "return", value |-> v]

Raise(e) == [kind |-> "raise", exc |-> e]

Returned == pc = "done" /\ out.kind = "return"

Raised == pc = "done" /\ out.kind = "raise"

----------------------------------------------------------------------------
(* Character strings *)

DIGITS == <<"0", "1", "2", "3", "4", "5", "6", "7", "8", "9">>

IsDigit(c) == \E i \in 1..10 : DIGITS[i] = c

DigitVal(c) == (CHOOSE i \in 1..10 : DIGITS[i] = c) - 1

AllDigits(s) == \A i \in 1..Len(s) : IsDigit(s[i])

\* A character outside ASCII, and a character of ASCII that a string of TLA+
\* cannot hold (a control character without an escape, the grave accent), is
\* written by the name of its code point: U+ and its four to
\* six hexadecimal digits, as "U+00A0" and "U+1D7CE".
HEX_DIGITS == <<"0", "1", "2", "3", "4", "5", "6", "7", "8", "9",
                "A", "B", "C", "D", "E", "F">>

IsCodePointName(c) == Len(c) >= 6 /\ SubSeq(c, 1, 2) = "U+"

RECURSIVE HexVal(_)
HexVal(h) ==
    IF h = "" THEN 0
    ELSE 16 * HexVal(SubSeq(h, 1, Len(h) - 1))
         + (CHOOSE i \in 1..16 : HEX_DIGITS[i] = SubSeq(h, Len(h), Len(h))) - 1

\* ord(c) of a character written by its name
CodePoint(c) == HexVal(SubSeq(c, 3, Len(c)))

RECURSIVE Hex(_, _)
Hex(n, w) == IF w <= 1 /\ n < 16 THEN HEX_DIGITS[n + 1]
             ELSE Hex(n \div 16, w - 1) \o HEX_DIGITS[(n % 16) + 1]

CodePointName(n) == "U+" \o Hex(n, 4)

InRanges(ranges, n) == \E i \in DOMAIN ranges : ranges[i][1] <= n /\ n <= ranges[i][2]

\* The tables below are those of the Unicode character database of Python
\* 3.11 (Unicode 14.0), for the code points from 128 on.
\*
\* The zeros of the decimal digits (category Nd): the digits 0 to 9 of a
\* script are the ten code points from its zero on.
ND_ZEROS ==
  {
    1632, 1776, 1984, 2406, 2534, 2662, 2790, 2918, 3046, 3174, 3302, 3430,
    3558, 3664, 3792, 3872, 4160, 4240, 6112, 6160, 6470, 6608, 6784, 6800,
    6992, 7088, 7232, 7248, 42528, 43216, 43264, 43472, 43504, 43600, 44016,
    65296, 66720, 68912, 69734, 69872, 69942, 70096, 70384, 70736, 70864,
    71248, 71360, 71472, 71904, 72016, 72784, 73040, 73120, 92768, 92864,
    93008, 120782, 120792, 120802, 120812, 120822, 123200, 123632, 125264,
    130032
  }

\* The characters that \w of a regular expression matches (str.isalnum())
WORD_RANGES ==
  <<
    <<170, 170>>, <<178, 179>>, <<181, 181>>, <<185, 186>>, <<188, 190>>,
    <<192, 214>>, <<216, 246>>, <<248, 705>>, <<710, 721>>, <<736, 740>>,
    <<748, 748>>, <<750, 750>>, <<880, 884>>, <<886, 887>>, <<890, 893>>,
    <<895, 895>>, <<902, 902>>, <<904, 906>>, <<908, 908>>, <<910, 929>>,
    <<931, 1013>>, <<1015, 1153>>, <<1162, 1327>>, <<1329, 1366>>,
    <<1369, 1369>>, <<1376, 1416>>, <<1488, 1514>>, <<1519, 1522>>,
    <<1568, 1610>>, <<1632, 1641>>, <<1646, 1647>>, <<1649, 1747>>,
    <<1749, 1749>>, <<1765, 1766>>, <<1774, 1788>>, <<1791, 1791>>,
    <<1808, 1808>>, <<1810, 1839>>, <<1869, 1957>>, <<1969, 1969>>,
    <<1984, 2026>>, <<2036, 2037>>, <<2042, 2042>>, <<2048, 2069>>,
    <<2074, 2074>>, <<2084, 2084>>, <<2088, 2088>>, <<2112, 2136>>,
    <<2144, 2154>>, <<2160, 2183>>, <<2185, 2190>>, <<2208, 2249>>,
    <<2308, 2361>>, <<2365, 2365>>, <<2384, 2384>>, <<2392, 2401>>,
    <<2406, 2415>>, <<2417, 2432>>, <<2437, 2444>>, <<2447, 2448>>,
    <<2451, 2472>>, <<2474, 2480>>, <<2482, 2482>>, <<2486, 2489>>,
    <<2493, 2493>>, <<2510, 2510>>, <<2524, 2525>>, <<2527, 2529>>,
    <<2534, 2545>>, <<2548, 2553>>, <<2556, 2556>>, <<2565, 2570>>,
    <<2575, 2576>>, <<2579, 2600>>, <<2602, 2608>>, <<2610, 2611>>,
    <<2613, 2614>>, <<2616, 2617>>, <<2649, 2652>>, <<2654, 2654>>,
    <<2662, 2671>>, <<2674, 2676>>, <<2693, 2701>>, <<2703, 2705>>,
    <<2707, 2728>>, <<2730, 2736>>, <<2738, 2739>>, <<2741, 2745>>,
    <<2749, 2749>>, <<2768, 2768>>, <<2784, 2785>>, <<2790, 2799>>,
    <<2809, 2809>>, <<2821, 2828>>, <<2831, 2832>>, <<2835, 2856>>,
    <<2858, 2864>>, <<2866, 2867>>, <<2869, 2873>>, <<2877, 2877>>,
    <<2908, 2909>>, <<2911, 2913>>, <<2918, 2927>>, <<2929, 2935>>,
    <<2947, 2947>>, <<2949, 2954>>, <<2958, 2960>>, <<2962, 2965>>,
    <<2969, 2970>>, <<2972, 2972>>, <<2974, 2975>>, <<2979, 2980>>,
    <<2984, 2986>>, <<2990, 3001>>, <<3024, 3024>>, <<3046, 3058>>,
    <<3077, 3084>>, <<3086, 3088>>, <<3090, 3112>>, <<3114, 3129>>,
    <<3133, 3133>>, <<3160, 3162>>, <<3165, 3165>>, <<3168, 3169>>,
    <<3174, 3183>>, <<3192, 3198>>, <<3200, 3200>>, <<3205, 3212>>,
    <<3214, 3216>>, <<3218, 3240>>, <<3242, 3251>>, <<3253, 3257>>,
    <<3261, 3261>>, <<3293, 3294>>, <<3296, 3297>>, <<3302, 3311>>,
    <<3313, 3314>>, <<3332, 3340>>, <<3342, 3344>>, <<3346, 3386>>,
    <<3389, 3389>>, <<3406, 3406>>, <<3412, 3414>>, <<3416, 3425>>,
    <<3430, 3448>>, <<3450, 3455>>, <<3461, 3478>>, <<3482, 3505>>,
    <<3507, 3515>>, <<3517, 3517>>, <<3520, 3526>>, <<3558, 3567>>,
    <<3585, 3632>>, <<3634, 3635>>, <<3648, 3654>>, <<3664, 3673>>,
    <<3713, 3714>>, <<3716, 3716>>, <<3718, 3722>>, <<3724, 3747>>,
    <<3749, 3749>>, <<3751, 3760>>, <<3762, 3763>>, <<3773, 3773>>,
    <<3776, 3780>>, <<3782, 3782>>, <<3792, 3801>>, <<3804, 3807>>,
    <<3840, 3840>>, <<3872, 3891>>, <<3904, 3911>>, <<3913, 3948>>,
    <<3976, 3980>>, <<4096, 4138>>, <<4159, 4169>>, <<4176, 4181>>,
    <<4186, 4189>>, <<4193, 4193>>, <<4197, 4198>>, <<4206, 4208>>,
    <<4213, 4225>>, <<4238, 4238>>, <<4240, 4249>>, <<4256, 4293>>,
    <<4295, 4295>>, <<4301, 4301>>, <<4304, 4346>>, <<4348, 4680>>,
    <<4682, 4685>>, <<4688, 4694>>, <<4696, 4696>>, <<4698, 4701>>,
    <<4704, 4744>>, <<4746, 4749>>, <<4752, 4784>>, <<4786, 4789>>,
    <<4792, 4798>>, <<4800, 4800>>, <<4802, 4805>>, <<4808, 4822>>,
    <<4824, 4880>>, <<4882, 4885>>, <<4888, 4954>>, <<4969, 4988>>,
    <<4992, 5007>>, <<5024, 5109>>, <<5112, 5117>>, <<5121, 5740>>,
    <<5743, 5759>>, <<5761, 5786>>, <<5792, 5866>>, <<5870, 5880>>,
    <<5888, 5905>>, <<5919, 5937>>, <<5952, 5969>>, <<5984, 5996>>,
    <<5998, 6000>>, <<6016, 6067>>, <<6103, 6103>>, <<6108, 6108>>,
    <<6112, 6121>>, <<6128, 6137>>, <<6160, 6169>>, <<6176, 6264>>,
    <<6272, 6276>>, <<6279, 6312>>, <<6314, 6314>>, <<6320, 6389>>,
    <<6400, 6430>>, <<6470, 6509>>, <<6512, 6516>>, <<6528, 6571>>,
    <<6576, 6601>>, <<6608, 6618>>, <<6656, 6678>>, <<6688, 6740>>,
    <<6784, 6793>>, <<6800, 6809>>, <<6823, 6823>>, <<6917, 6963>>,
    <<6981, 6988>>, <<6992, 7001>>, <<7043, 7072>>, <<7086, 7141>>,
    <<7168, 7203>>, <<7232, 7241>>, <<7245, 7293>>, <<7296, 7304>>,
    <<7312, 7354>>, <<7357, 7359>>, <<7401, 7404>>, <<7406, 7411>>,
    <<7413, 7414>>, <<7418, 7418>>, <<7424, 7615>>, <<7680, 7957>>,
    <<7960, 7965>>, <<7968, 8005>>, <<8008, 8013>>, <<8016, 8023>>,
    <<8025, 8025>>, <<8027, 8027>>, <<8029, 8029>>, <<8031, 8061>>,
    <<8064, 8116>>, <<8118, 8124>>, <<8126, 8126>>, <<8130, 8132>>,
    <<8134, 8140>>, <<8144, 8147>>, <<8150, 8155>>, <<8160, 8172>>,
    <<8178, 8180>>, <<8182, 8188>>, <<8304, 8305>>, <<8308, 8313>>,
    <<8319, 8329>>, <<8336, 8348>>, <<8450, 8450>>, <<8455, 8455>>,
    <<8458, 8467>>, <<8469, 8469>>, <<8473, 8477>>, <<8484, 8484>>,
    <<8486, 8486>>, <<8488, 8488>>, <<8490, 8493>>, <<8495, 8505>>,
    <<8508, 8511>>, <<8517, 8521>>, <<8526, 8526>>, <<8528, 8585>>,
    <<9312, 9371>>, <<9450, 9471>>, <<10102, 10131>>, <<11264, 11492>>,
    <<11499, 11502>>, <<11506, 11507>>, <<11517, 11517>>, <<11520, 11557>>,
    <<11559, 11559>>, <<11565, 11565>>, <<11568, 11623>>, <<11631, 11631>>,
    <<11648, 11670>>, <<11680, 11686>>, <<11688, 11694>>, <<11696, 11702>>,
    <<11704, 11710>>, <<11712, 11718>>, <<11720, 11726>>, <<11728, 11734>>,
    <<11736, 11742>>, <<11823, 11823>>, <<12293, 12295>>, <<12321, 12329>>,
    <<12337, 12341>>, <<12344, 12348>>, <<12353, 12438>>, <<12445, 12447>>,
    <<12449, 12538>>, <<12540, 12543>>, <<12549, 12591>>, <<12593, 12686>>,
    <<12690, 12693>>, <<12704, 12735>>, <<12784, 12799>>, <<12832, 12841>>,
    <<12872, 12879>>, <<12881, 12895>>, <<12928, 12937>>, <<12977, 12991>>,
    <<13312, 19903>>, <<19968, 42124>>, <<42192, 42237>>, <<42240, 42508>>,
    <<42512, 42539>>, <<42560, 42606>>, <<42623, 42653>>, <<42656, 42735>>,
    <<42775, 42783>>, <<42786, 42888>>, <<42891, 42954>>, <<42960, 42961>>,
    <<42963, 42963>>, <<42965, 42969>>, <<42994, 43009>>, <<43011, 43013>>,
    <<43015, 43018>>, <<43020, 43042>>, <<43056, 43061>>, <<43072, 43123>>,
    <<43138, 43187>>, <<43216, 43225>>, <<43250, 43255>>, <<43259, 43259>>,
    <<43261, 43262>>, <<43264, 43301>>, <<43312, 43334>>, <<43360, 43388>>,
    <<43396, 43442>>, <<43471, 43481>>, <<43488, 43492>>, <<43494, 43518>>,
    <<43520, 43560>>, <<43584, 43586>>, <<43588, 43595>>, <<43600, 43609>>,
    <<43616, 43638>>, <<43642, 43642>>, <<43646, 43695>>, <<43697, 43697>>,
    <<43701, 43702>>, <<43705, 43709>>, <<43712, 43712>>, <<43714, 43714>>,
    <<43739, 43741>>, <<43744, 43754>>, <<43762, 43764>>, <<43777, 43782>>,
    <<43785, 43790>>, <<43793, 43798>>, <<43808, 43814>>, <<43816, 43822>>,
    <<43824, 43866>>, <<43868, 43881>>, <<43888, 44002>>, <<44016, 44025>>,
    <<44032, 55203>>, <<55216, 55238>>, <<55243, 55291>>, <<63744, 64109>>,
    <<64112, 64217>>, <<64256, 64262>>, <<64275, 64279>>, <<64285, 64285>>,
    <<64287, 64296>>, <<64298, 64310>>, <<64312, 64316>>, <<64318, 64318>>,
    <<64320, 64321>>, <<64323, 64324>>, <<64326, 64433>>, <<64467, 64829>>,
    <<64848, 64911>>, <<64914, 64967>>, <<65008, 65019>>, <<65136, 65140>>,
    <<65142, 65276>>, <<65296, 65305>>, <<65313, 65338>>, <<65345, 65370>>,
    <<65382, 65470>>, <<65474, 65479>>, <<65482, 65487>>, <<65490, 65495>>,
    <<65498, 65500>>, <<65536, 65547>>, <<65549, 65574>>, <<65576, 65594>>,
    <<65596, 65597>>, <<65599, 65613>>, <<65616, 65629>>, <<65664, 65786>>,
    <<65799, 65843>>, <<65856, 65912>>, <<65930, 65931>>, <<66176, 66204>>,
    <<66208, 66256>>, <<66273, 66299>>, <<66304, 66339>>, <<66349, 66378>>,
    <<66384, 66421>>, <<66432, 66461>>, <<66464, 66499>>, <<66504, 66511>>,
    <<66513, 66517>>, <<66560, 66717>>, <<66720, 66729>>, <<66736, 66771>>,
    <<66776, 66811>>, <<66816, 66855>>, <<66864, 66915>>, <<66928, 66938>>,
    <<66940, 66954>>, <<66956, 66962>>, <<66964, 66965>>, <<66967, 66977>>,
    <<66979, 66993>>, <<66995, 67001>>, <<67003, 67004>>, <<67072, 67382>>,
    <<67392, 67413>>, <<67424, 67431>>, <<67456, 67461>>, <<67463, 67504>>,
    <<67506, 67514>>, <<67584, 67589>>, <<67592, 67592>>, <<67594, 67637>>,
    <<67639, 67640>>, <<67644, 67644>>, <<67647, 67669>>, <<67672, 67702>>,
    <<67705, 67742>>, <<67751, 67759>>, <<67808, 67826>>, <<67828, 67829>>,
    <<67835, 67867>>, <<67872, 67897>>, <<67968, 68023>>, <<68028, 68047>>,
    <<68050, 68096>>, <<68112, 68115>>, <<68117, 68119>>, <<68121, 68149>>,
    <<68160, 68168>>, <<68192, 68222>>, <<68224, 68255>>, <<68288, 68295>>,
    <<68297, 68324>>, <<68331, 68335>>, <<68352, 68405>>, <<68416, 68437>>,
    <<68440, 68466>>, <<68472, 68497>>, <<68521, 68527>>, <<68608, 68680>>,
    <<68736, 68786>>, <<68800, 68850>>, <<68858, 68899>>, <<68912, 68921>>,
    <<69216, 69246>>, <<69248, 69289>>, <<69296, 69297>>, <<69376, 69415>>,
    <<69424, 69445>>, <<69457, 69460>>, <<69488, 69505>>, <<69552, 69579>>,
    <<69600, 69622>>, <<69635, 69687>>, <<69714, 69743>>, <<69745, 69746>>,
    <<69749, 69749>>, <<69763, 69807>>, <<69840, 69864>>, <<69872, 69881>>,
    <<69891, 69926>>, <<69942, 69951>>, <<69956, 69956>>, <<69959, 69959>>,
    <<69968, 70002>>, <<70006, 70006>>, <<70019, 70066>>, <<70081, 70084>>,
    <<70096, 70106>>, <<70108, 70108>>, <<70113, 70132>>, <<70144, 70161>>,
    <<70163, 70187>>, <<70272, 70278>>, <<70280, 70280>>, <<70282, 70285>>,
    <<70287, 70301>>, <<70303, 70312>>, <<70320, 70366>>, <<70384, 70393>>,
    <<70405, 70412>>, <<70415, 70416>>, <<70419, 70440>>, <<70442, 70448>>,
    <<70450, 70451>>, <<70453, 70457>>, <<70461, 70461>>, <<70480, 70480>>,
    <<70493, 70497>>, <<70656, 70708>>, <<70727, 70730>>, <<70736, 70745>>,
    <<70751, 70753>>, <<70784, 70831>>, <<70852, 70853>>, <<70855, 70855>>,
    <<70864, 70873>>, <<71040, 71086>>, <<71128, 71131>>, <<71168, 71215>>,
    <<71236, 71236>>, <<71248, 71257>>, <<71296, 71338>>, <<71352, 71352>>,
    <<71360, 71369>>, <<71424, 71450>>, <<71472, 71483>>, <<71488, 71494>>,
    <<71680, 71723>>, <<71840, 71922>>, <<71935, 71942>>, <<71945, 71945>>,
    <<71948, 71955>>, <<71957, 71958>>, <<71960, 71983>>, <<71999, 71999>>,
    <<72001, 72001>>, <<72016, 72025>>, <<72096, 72103>>, <<72106, 72144>>,
    <<72161, 72161>>, <<72163, 72163>>, <<72192, 72192>>, <<72203, 72242>>,
    <<72250, 72250>>, <<72272, 72272>>, <<72284, 72329>>, <<72349, 72349>>,
    <<72368, 72440>>, <<72704, 72712>>, <<72714, 72750>>, <<72768, 72768>>,
    <<72784, 72812>>, <<72818, 72847>>, <<72960, 72966>>, <<72968, 72969>>,
    <<72971, 73008>>, <<73030, 73030>>, <<73040, 73049>>, <<73056, 73061>>,
    <<73063, 73064>>, <<73066, 73097>>, <<73112, 73112>>, <<73120, 73129>>,
    <<73440, 73458>>, <<73648, 73648>>, <<73664, 73684>>, <<73728, 74649>>,
    <<74752, 74862>>, <<74880, 75075>>, <<77712, 77808>>, <<77824, 78894>>,
    <<82944, 83526>>, <<92160, 92728>>, <<92736, 92766>>, <<92768, 92777>>,
    <<92784, 92862>>, <<92864, 92873>>, <<92880, 92909>>, <<92928, 92975>>,
    <<92992, 92995>>, <<93008, 93017>>, <<93019, 93025>>, <<93027, 93047>>,
    <<93053, 93071>>, <<93760, 93846>>, <<93952, 94026>>, <<94032, 94032>>,
    <<94099, 94111>>, <<94176, 94177>>, <<94179, 94179>>, <<94208, 100343>>,
    <<100352, 101589>>, <<101632, 101640>>, <<110576, 110579>>,
    <<110581, 110587>>, <<110589, 110590>>, <<110592, 110882>>,
    <<110928, 110930>>, <<110948, 110951>>, <<110960, 111355>>,
    <<113664, 113770>>, <<113776, 113788>>, <<113792, 113800>>,
    <<113808, 113817>>, <<119520, 119539>>, <<119648, 119672>>,
    <<119808, 119892>>, <<119894, 119964>>, <<119966, 119967>>,
    <<119970, 119970>>, <<119973, 119974>>, <<119977, 119980>>,
    <<119982, 119993>>, <<119995, 119995>>, <<119997, 120003>>,
    <<120005, 120069>>, <<120071, 120074>>, <<120077, 120084>>,
    <<120086, 120092>>, <<120094, 120121>>, <<120123, 120126>>,
    <<120128, 120132>>, <<120134, 120134>>, <<120138, 120144>>,
    <<120146, 120485>>, <<120488, 120512>>, <<120514, 120538>>,
    <<120540, 120570>>, <<120572, 120596>>, <<120598, 120628>>,
    <<120630, 120654>>, <<120656, 120686>>, <<120688, 120712>>,
    <<120714, 120744>>, <<120746, 120770>>, <<120772, 120779>>,
    <<120782, 120831>>, <<122624, 122654>>, <<123136, 123180>>,
    <<123191, 123197>>, <<123200, 123209>>, <<123214, 123214>>,
    <<123536, 123565>>, <<123584, 123627>>, <<123632, 123641>>,
    <<124896, 124902>>, <<124904, 124907>>, <<124909, 124910>>,
    <<124912, 124926>>, <<124928, 125124>>, <<125127, 125135>>,
    <<125184, 125251>>, <<125259, 125259>>, <<125264, 125273>>,
    <<126065, 126123>>, <<126125, 126127>>, <<126129, 126132>>,
    <<126209, 126253>>, <<126255, 126269>>, <<126464, 126467>>,
    <<126469, 126495>>, <<126497, 126498>>, <<126500, 126500>>,
    <<126503, 126503>>, <<126505, 126514>>, <<126516, 126519>>,
    <<126521, 126521>>, <<126523, 126523>>, <<126530, 126530>>,
    <<126535, 126535>>, <<126537, 126537>>, <<126539, 126539>>,
    <<126541, 126543>>, <<126545, 126546>>, <<126548, 126548>>,
    <<126551, 126551>>, <<126553, 126553>>, <<126555, 126555>>,
    <<126557, 126557>>, <<126559, 126559>>, <<126561, 126562>>,
    <<126564, 126564>>, <<126567, 126570>>, <<126572, 126578>>,
    <<126580, 126583>>, <<126585, 126588>>, <<126590, 126590>>,
    <<126592, 126601>>, <<126603, 126619>>, <<126625, 126627>>,
    <<126629, 126633>>, <<126635, 126651>>, <<127232, 127244>>,
    <<130032, 130041>>, <<131072, 173791>>, <<173824, 177976>>,
    <<177984, 178205>>, <<178208, 183969>>, <<183984, 191456>>,
    <<194560, 195101>>, <<196608, 201546>>
  >>

\* str.lower(): <<first, last, step, offset>> lowers every step-th code point
\* from first to last to the code point offset further on.  U+0130, which is
\* lowered to two characters, and the capital sigma U+03A3, whose lower case
\* depends on its place in the word, are not in the table.
LOWER_RUNS ==
  <<
    <<192, 214, 1, 32>>, <<216, 222, 1, 32>>, <<256, 302, 2, 1>>,
    <<306, 310, 2, 1>>, <<313, 327, 2, 1>>, <<330, 374, 2, 1>>,
    <<376, 376, 1, -121>>, <<377, 381, 2, 1>>, <<385, 385, 1, 210>>,
    <<386, 388, 2, 1>>, <<390, 390, 1, 206>>, <<391, 391, 1, 1>>,
    <<393, 394, 1, 205>>, <<395, 395, 1, 1>>, <<398, 398, 1, 79>>,
    <<399, 399, 1, 202>>, <<400, 400, 1, 203>>, <<401, 401, 1, 1>>,
    <<403, 403, 1, 205>>, <<404, 404, 1, 207>>, <<406, 406, 1, 211>>,
    <<407, 407, 1, 209>>, <<408, 408, 1, 1>>, <<412, 412, 1, 211>>,
    <<413, 413, 1, 213>>, <<415, 415, 1, 214>>, <<416, 420, 2, 1>>,
    <<422, 422, 1, 218>>, <<423, 423, 1, 1>>, <<425, 425, 1, 218>>,
    <<428, 428, 1, 1>>, <<430, 430, 1, 218>>, <<431, 431, 1, 1>>,
    <<433, 434, 1, 217>>, <<435, 437, 2, 1>>, <<439, 439, 1, 219>>,
    <<440, 440, 1, 1>>, <<444, 444, 1, 1>>, <<452, 452, 1, 2>>,
    <<453, 453, 1, 1>>, <<455, 455, 1, 2>>, <<456, 456, 1, 1>>,
    <<458, 458, 1, 2>>, <<459, 475, 2, 1>>, <<478, 494, 2, 1>>,
    <<497, 497, 1, 2>>, <<498, 500, 2, 1>>, <<502, 502, 1, -97>>,
    <<503, 503, 1, -56>>, <<504, 542, 2, 1>>, <<544, 544, 1, -130>>,
    <<546, 562, 2, 1>>, <<570, 570, 1, 10795>>, <<571, 571, 1, 1>>,
    <<573, 573, 1, -163>>, <<574, 574, 1, 10792>>, <<577, 577, 1, 1>>,
    <<579, 579, 1, -195>>, <<580, 580, 1, 69>>, <<581, 581, 1, 71>>,
    <<582, 590, 2, 1>>, <<880, 882, 2, 1>>, <<886, 886, 1, 1>>,
    <<895, 895, 1, 116>>, <<902, 902, 1, 38>>, <<904, 906, 1, 37>>,
    <<908, 908, 1, 64>>, <<910, 911, 1, 63>>, <<913, 929, 1, 32>>,
    <<932, 939, 1, 32>>, <<975, 975, 1, 8>>, <<984, 1006, 2, 1>>,
    <<1012, 1012, 1, -60>>, <<1015, 1015, 1, 1>>, <<1017, 1017, 1, -7>>,
    <<1018, 1018, 1, 1>>, <<1021, 1023, 1, -130>>, <<1024, 1039, 1, 80>>,
    <<1040, 1071, 1, 32>>, <<1120, 1152, 2, 1>>, <<1162, 1214, 2, 1>>,
    <<1216, 1216, 1, 15>>, <<1217, 1229, 2, 1>>, <<1232, 1326, 2, 1>>,
    <<1329, 1366, 1, 48>>, <<4256, 4293, 1, 7264>>, <<4295, 4295, 1, 7264>>,
    <<4301, 4301, 1, 7264>>, <<5024, 5103, 1, 38864>>, <<5104, 5109, 1, 8>>,
    <<7312, 7354, 1, -3008>>, <<7357, 7359, 1, -3008>>, <<7680, 7828, 2, 1>>,
    <<7838, 7838, 1, -7615>>, <<7840, 7934, 2, 1>>, <<7944, 7951, 1, -8>>,
    <<7960, 7965, 1, -8>>, <<7976, 7983, 1, -8>>, <<7992, 7999, 1, -8>>,
    <<8008, 8013, 1, -8>>, <<8025, 8031, 2, -8>>, <<8040, 8047, 1, -8>>,
    <<8072, 8079, 1, -8>>, <<8088, 8095, 1, -8>>, <<8104, 8111, 1, -8>>,
    <<8120, 8121, 1, -8>>, <<8122, 8123, 1, -74>>, <<8124, 8124, 1, -9>>,
    <<8136, 8139, 1, -86>>, <<8140, 8140, 1, -9>>, <<8152, 8153, 1, -8>>,
    <<8154, 8155, 1, -100>>, <<8168, 8169, 1, -8>>, <<8170, 8171, 1, -112>>,
    <<8172, 8172, 1, -7>>, <<8184, 8185, 1, -128>>, <<8186, 8187, 1, -126>>,
    <<8188, 8188, 1, -9>>, <<8486, 8486, 1, -7517>>,
    <<8490, 8490, 1, -8383>>, <<8491, 8491, 1, -8262>>,
    <<8498, 8498, 1, 28>>, <<8544, 8559, 1, 16>>, <<8579, 8579, 1, 1>>,
    <<9398, 9423, 1, 26>>, <<11264, 11311, 1, 48>>, <<11360, 11360, 1, 1>>,
    <<11362, 11362, 1, -10743>>, <<11363, 11363, 1, -3814>>,
    <<11364, 11364, 1, -10727>>, <<11367, 11371, 2, 1>>,
    <<11373, 11373, 1, -10780>>, <<11374, 11374, 1, -10749>>,
    <<11375, 11375, 1, -10783>>, <<11376, 11376, 1, -10782>>,
    <<11378, 11378, 1, 1>>, <<11381, 11381, 1, 1>>,
    <<11390, 11391, 1, -10815>>, <<11392, 11490, 2, 1>>,
    <<11499, 11501, 2, 1>>, <<11506, 11506, 1, 1>>, <<42560, 42604, 2, 1>>,
    <<42624, 42650, 2, 1>>, <<42786, 42798, 2, 1>>, <<42802, 42862, 2, 1>>,
    <<42873, 42875, 2, 1>>, <<42877, 42877, 1, -35332>>,
    <<42878, 42886, 2, 1>>, <<42891, 42891, 1, 1>>,
    <<42893, 42893, 1, -42280>>, <<42896, 42898, 2, 1>>,
    <<42902, 42920, 2, 1>>, <<42922, 42922, 1, -42308>>,
    <<42923, 42923, 1, -42319>>, <<42924, 42924, 1, -42315>>,
    <<42925, 42925, 1, -42305>>, <<42926, 42926, 1, -42308>>,
    <<42928, 42928, 1, -42258>>, <<42929, 42929, 1, -42282>>,
    <<42930, 42930, 1, -42261>>, <<42931, 42931, 1, 928>>,
    <<42932, 42946, 2, 1>>, <<42948, 42948, 1, -48>>,
    <<42949, 42949, 1, -42307>>, <<42950, 42950, 1, -35384>>,
    <<42951, 42953, 2, 1>>, <<42960, 42960, 1, 1>>, <<42966, 42968, 2, 1>>,
    <<42997, 42997, 1, 1>>, <<65313, 65338, 1, 32>>, <<66560, 66599, 1, 40>>,
    <<66736, 66771, 1, 40>>, <<66928, 66938, 1, 39>>,
    <<66940, 66954, 1, 39>>, <<66956, 66962, 1, 39>>,
    <<66964, 66965, 1, 39>>, <<68736, 68786, 1, 64>>,
    <<71840, 71871, 1, 32>>, <<93760, 93791, 1, 32>>,
    <<125184, 125217, 1, 34>>
  >>

\* The cased characters that are not case-ignorable, and the case-ignorable
\* characters, by which str.lower() tells a final sigma
CASED_RANGES ==
  <<
    <<170, 170>>, <<181, 181>>, <<186, 186>>, <<192, 214>>, <<216, 246>>,
    <<248, 442>>, <<444, 447>>, <<452, 659>>, <<661, 687>>, <<880, 883>>,
    <<886, 887>>, <<891, 893>>, <<895, 895>>, <<902, 902>>, <<904, 906>>,
    <<908, 908>>, <<910, 929>>, <<931, 1013>>, <<1015, 1153>>,
    <<1162, 1327>>, <<1329, 1366>>, <<1376, 1416>>, <<4256, 4293>>,
    <<4295, 4295>>, <<4301, 4301>>, <<4304, 4346>>, <<4349, 4351>>,
    <<5024, 5109>>, <<5112, 5117>>, <<7296, 7304>>, <<7312, 7354>>,
    <<7357, 7359>>, <<7424, 7467>>, <<7531, 7543>>, <<7545, 7578>>,
    <<7680, 7957>>, <<7960, 7965>>, <<7968, 8005>>, <<8008, 8013>>,
    <<8016, 8023>>, <<8025, 8025>>, <<8027, 8027>>, <<8029, 8029>>,
    <<8031, 8061>>, <<8064, 8116>>, <<8118, 8124>>, <<8126, 8126>>,
    <<8130, 8132>>, <<8134, 8140>>, <<8144, 8147>>, <<8150, 8155>>,
    <<8160, 8172>>, <<8178, 8180>>, <<8182, 8188>>, <<8450, 8450>>,
    <<8455, 8455>>, <<8458, 8467>>, <<8469, 8469>>, <<8473, 8477>>,
    <<8484, 8484>>, <<8486, 8486>>, <<8488, 8488>>, <<8490, 8493>>,
    <<8495, 8500>>, <<8505, 8505>>, <<8508, 8511>>, <<8517, 8521>>,
    <<8526, 8526>>, <<8544, 8575>>, <<8579, 8580>>, <<9398, 9449>>,
    <<11264, 11387>>, <<11390, 11492>>, <<11499, 11502>>, <<11506, 11507>>,
    <<11520, 11557>>, <<11559, 11559>>, <<11565, 11565>>, <<42560, 42605>>,
    <<42624, 42651>>, <<42786, 42863>>, <<42865, 42887>>, <<42891, 42894>>,
    <<42896, 42954>>, <<42960, 42961>>, <<42963, 42963>>, <<42965, 42969>>,
    <<42997, 42998>>, <<43002, 43002>>, <<43824, 43866>>, <<43872, 43880>>,
    <<43888, 43967>>, <<64256, 64262>>, <<64275, 64279>>, <<65313, 65338>>,
    <<65345, 65370>>, <<66560, 66639>>, <<66736, 66771>>, <<66776, 66811>>,
    <<66928, 66938>>, <<66940, 66954>>, <<66956, 66962>>, <<66964, 66965>>,
    <<66967, 66977>>, <<66979, 66993>>, <<66995, 67001>>, <<67003, 67004>>,
    <<68736, 68786>>, <<68800, 68850>>, <<71840, 71903>>, <<93760, 93823>>,
    <<119808, 119892>>, <<119894, 119964>>, <<119966, 119967>>,
    <<119970, 119970>>, <<119973, 119974>>, <<119977, 119980>>,
    <<119982, 119993>>, <<119995, 119995>>, <<119997, 120003>>,
    <<120005, 120069>>, <<120071, 120074>>, <<120077, 120084>>,
    <<120086, 120092>>, <<120094, 120121>>, <<120123, 120126>>,
    <<120128, 120132>>, <<120134, 120134>>, <<120138, 120144>>,
    <<120146, 120485>>, <<120488, 120512>>, <<120514, 120538>>,
    <<120540, 120570>>, <<120572, 120596>>, <<120598, 120628>>,
    <<120630, 120654>>, <<120656, 120686>>, <<120688, 120712>>,
    <<120714, 120744>>, <<120746, 120770>>, <<120772, 120779>>,
    <<122624, 122633>>, <<122635, 122654>>, <<125184, 125251>>,
    <<127280, 127305>>, <<127312, 127337>>, <<127344, 127369>>
  >>

CASE_IGNORABLE_RANGES ==
  <<
    <<168, 168>>, <<173, 173>>, <<175, 175>>, <<180, 180>>, <<183, 184>>,
    <<688, 879>>, <<884, 885>>, <<890, 890>>, <<900, 901>>, <<903, 903>>,
    <<1155, 1161>>, <<1369, 1369>>, <<1375, 1375>>, <<1425, 1469>>,
    <<1471, 1471>>, <<1473, 1474>>, <<1476, 1477>>, <<1479, 1479>>,
    <<1524, 1524>>, <<1536, 1541>>, <<1552, 1562>>, <<1564, 1564>>,
    <<1600, 1600>>, <<1611, 1631>>, <<1648, 1648>>, <<1750, 1757>>,
    <<1759, 1768>>, <<1770, 1773>>, <<1807, 1807>>, <<1809, 1809>>,
    <<1840, 1866>>, <<1958, 1968>>, <<2027, 2037>>, <<2042, 2042>>,
    <<2045, 2045>>, <<2070, 2093>>, <<2137, 2139>>, <<2184, 2184>>,
    <<2192, 2193>>, <<2200, 2207>>, <<2249, 2306>>, <<2362, 2362>>,
    <<2364, 2364>>, <<2369, 2376>>, <<2381, 2381>>, <<2385, 2391>>,
    <<2402, 2403>>, <<2417, 2417>>, <<2433, 2433>>, <<2492, 2492>>,
    <<2497, 2500>>, <<2509, 2509>>, <<2530, 2531>>, <<2558, 2558>>,
    <<2561, 2562>>, <<2620, 2620>>, <<2625, 2626>>, <<2631, 2632>>,
    <<2635, 2637>>, <<2641, 2641>>, <<2672, 2673>>, <<2677, 2677>>,
    <<2689, 2690>>, <<2748, 2748>>, <<2753, 2757>>, <<2759, 2760>>,
    <<2765, 2765>>, <<2786, 2787>>, <<2810, 2815>>, <<2817, 2817>>,
    <<2876, 2876>>, <<2879, 2879>>, <<2881, 2884>>, <<2893, 2893>>,
    <<2901, 2902>>, <<2914, 2915>>, <<2946, 2946>>, <<3008, 3008>>,
    <<3021, 3021>>, <<3072, 3072>>, <<3076, 3076>>, <<3132, 3132>>,
    <<3134, 3136>>, <<3142, 3144>>, <<3146, 3149>>, <<3157, 3158>>,
    <<3170, 3171>>, <<3201, 3201>>, <<3260, 3260>>, <<3263, 3263>>,
    <<3270, 3270>>, <<3276, 3277>>, <<3298, 3299>>, <<3328, 3329>>,
    <<3387, 3388>>, <<3393, 3396>>, <<3405, 3405>>, <<3426, 3427>>,
    <<3457, 3457>>, <<3530, 3530>>, <<3538, 3540>>, <<3542, 3542>>,
    <<3633, 3633>>, <<3636, 3642>>, <<3654, 3662>>, <<3761, 3761>>,
    <<3764, 3772>>, <<3782, 3782>>, <<3784, 3789>>, <<3864, 3865>>,
    <<3893, 3893>>, <<3895, 3895>>, <<3897, 3897>>, <<3953, 3966>>,
    <<3968, 3972>>, <<3974, 3975>>, <<3981, 3991>>, <<3993, 4028>>,
    <<4038, 4038>>, <<4141, 4144>>, <<4146, 4151>>, <<4153, 4154>>,
    <<4157, 4158>>, <<4184, 4185>>, <<4190, 4192>>, <<4209, 4212>>,
    <<4226, 4226>>, <<4229, 4230>>, <<4237, 4237>>, <<4253, 4253>>,
    <<4348, 4348>>, <<4957, 4959>>, <<5906, 5908>>, <<5938, 5939>>,
    <<5970, 5971>>, <<6002, 6003>>, <<6068, 6069>>, <<6071, 6077>>,
    <<6086, 6086>>, <<6089, 6099>>, <<6103, 6103>>, <<6109, 6109>>,
    <<6155, 6159>>, <<6211, 6211>>, <<6277, 6278>>, <<6313, 6313>>,
    <<6432, 6434>>, <<6439, 6440>>, <<6450, 6450>>, <<6457, 6459>>,
    <<6679, 6680>>, <<6683, 6683>>, <<6742, 6742>>, <<6744, 6750>>,
    <<6752, 6752>>, <<6754, 6754>>, <<6757, 6764>>, <<6771, 6780>>,
    <<6783, 6783>>, <<6823, 6823>>, <<6832, 6862>>, <<6912, 6915>>,
    <<6964, 6964>>, <<6966, 6970>>, <<6972, 6972>>, <<6978, 6978>>,
    <<7019, 7027>>, <<7040, 7041>>, <<7074, 7077>>, <<7080, 7081>>,
    <<7083, 7085>>, <<7142, 7142>>, <<7144, 7145>>, <<7149, 7149>>,
    <<7151, 7153>>, <<7212, 7219>>, <<7222, 7223>>, <<7288, 7293>>,
    <<7376, 7378>>, <<7380, 7392>>, <<7394, 7400>>, <<7405, 7405>>,
    <<7412, 7412>>, <<7416, 7417>>, <<7468, 7530>>, <<7544, 7544>>,
    <<7579, 7679>>, <<8125, 8125>>, <<8127, 8129>>, <<8141, 8143>>,
    <<8157, 8159>>, <<8173, 8175>>, <<8189, 8190>>, <<8203, 8207>>,
    <<8216, 8217>>, <<8228, 8228>>, <<8231, 8231>>, <<8234, 8238>>,
    <<8288, 8292>>, <<8294, 8303>>, <<8305, 8305>>, <<8319, 8319>>,
    <<8336, 8348>>, <<8400, 8432>>, <<11388, 11389>>, <<11503, 11505>>,
    <<11631, 11631>>, <<11647, 11647>>, <<11744, 11775>>, <<11823, 11823>>,
    <<12293, 12293>>, <<12330, 12333>>, <<12337, 12341>>, <<12347, 12347>>,
    <<12441, 12446>>, <<12540, 12542>>, <<40981, 40981>>, <<42232, 42237>>,
    <<42508, 42508>>, <<42607, 42610>>, <<42612, 42621>>, <<42623, 42623>>,
    <<42652, 42655>>, <<42736, 42737>>, <<42752, 42785>>, <<42864, 42864>>,
    <<42888, 42890>>, <<42994, 42996>>, <<43000, 43001>>, <<43010, 43010>>,
    <<43014, 43014>>, <<43019, 43019>>, <<43045, 43046>>, <<43052, 43052>>,
    <<43204, 43205>>, <<43232, 43249>>, <<43263, 43263>>, <<43302, 43309>>,
    <<43335, 43345>>, <<43392, 43394>>, <<43443, 43443>>, <<43446, 43449>>,
    <<43452, 43453>>, <<43471, 43471>>, <<43493, 43494>>, <<43561, 43566>>,
    <<43569, 43570>>, <<43573, 43574>>, <<43587, 43587>>, <<43596, 43596>>,
    <<43632, 43632>>, <<43644, 43644>>, <<43696, 43696>>, <<43698, 43700>>,
    <<43703, 43704>>, <<43710, 43711>>, <<43713, 43713>>, <<43741, 43741>>,
    <<43756, 43757>>, <<43763, 43764>>, <<43766, 43766>>, <<43867, 43871>>,
    <<43881, 43883>>, <<44005, 44005>>, <<44008, 44008>>, <<44013, 44013>>,
    <<64286, 64286>>, <<64434, 64450>>, <<65024, 65039>>, <<65043, 65043>>,
    <<65056, 65071>>, <<65106, 65106>>, <<65109, 65109>>, <<65279, 65279>>,
    <<65287, 65287>>, <<65294, 65294>>, <<65306, 65306>>, <<65342, 65342>>,
    <<65344, 65344>>, <<65392, 65392>>, <<65438, 65439>>, <<65507, 65507>>,
    <<65529, 65531>>, <<66045, 66045>>, <<66272, 66272>>, <<66422, 66426>>,
    <<67456, 67461>>, <<67463, 67504>>, <<67506, 67514>>, <<68097, 68099>>,
    <<68101, 68102>>, <<68108, 68111>>, <<68152, 68154>>, <<68159, 68159>>,
    <<68325, 68326>>, <<68900, 68903>>, <<69291, 69292>>, <<69446, 69456>>,
    <<69506, 69509>>, <<69633, 69633>>, <<69688, 69702>>, <<69744, 69744>>,
    <<69747, 69748>>, <<69759, 69761>>, <<69811, 69814>>, <<69817, 69818>>,
    <<69821, 69821>>, <<69826, 69826>>, <<69837, 69837>>, <<69888, 69890>>,
    <<69927, 69931>>, <<69933, 69940>>, <<70003, 70003>>, <<70016, 70017>>,
    <<70070, 70078>>, <<70089, 70092>>, <<70095, 70095>>, <<70191, 70193>>,
    <<70196, 70196>>, <<70198, 70199>>, <<70206, 70206>>, <<70367, 70367>>,
    <<70371, 70378>>, <<70400, 70401>>, <<70459, 70460>>, <<70464, 70464>>,
    <<70502, 70508>>, <<70512, 70516>>, <<70712, 70719>>, <<70722, 70724>>,
    <<70726, 70726>>, <<70750, 70750>>, <<70835, 70840>>, <<70842, 70842>>,
    <<70847, 70848>>, <<70850, 70851>>, <<71090, 71093>>, <<71100, 71101>>,
    <<71103, 71104>>, <<71132, 71133>>, <<71219, 71226>>, <<71229, 71229>>,
    <<71231, 71232>>, <<71339, 71339>>, <<71341, 71341>>, <<71344, 71349>>,
    <<71351, 71351>>, <<71453, 71455>>, <<71458, 71461>>, <<71463, 71467>>,
    <<71727, 71735>>, <<71737, 71738>>, <<71995, 71996>>, <<71998, 71998>>,
    <<72003, 72003>>, <<72148, 72151>>, <<72154, 72155>>, <<72160, 72160>>,
    <<72193, 72202>>, <<72243, 72248>>, <<72251, 72254>>, <<72263, 72263>>,
    <<72273, 72278>>, <<72281, 72283>>, <<72330, 72342>>, <<72344, 72345>>,
    <<72752, 72758>>, <<72760, 72765>>, <<72767, 72767>>, <<72850, 72871>>,
    <<72874, 72880>>, <<72882, 72883>>, <<72885, 72886>>, <<73009, 73014>>,
    <<73018, 73018>>, <<73020, 73021>>, <<73023, 73029>>, <<73031, 73031>>,
    <<73104, 73105>>, <<73109, 73109>>, <<73111, 73111>>, <<73459, 73460>>,
    <<78896, 78904>>, <<92912, 92916>>, <<92976, 92982>>, <<92992, 92995>>,
    <<94031, 94031>>, <<94095, 94111>>, <<94176, 94177>>, <<94179, 94180>>,
    <<110576, 110579>>, <<110581, 110587>>, <<110589, 110590>>,
    <<113821, 113822>>, <<113824, 113827>>, <<118528, 118573>>,
    <<118576, 118598>>, <<119143, 119145>>, <<119155, 119170>>,
    <<119173, 119179>>, <<119210, 119213>>, <<119362, 119364>>,
    <<121344, 121398>>, <<121403, 121452>>, <<121461, 121461>>,
    <<121476, 121476>>, <<121499, 121503>>, <<121505, 121519>>,
    <<122880, 122886>>, <<122888, 122904>>, <<122907, 122913>>,
    <<122915, 122916>>, <<122918, 122922>>, <<123184, 123197>>,
    <<123566, 123566>>, <<123628, 123631>>, <<125136, 125142>>,
    <<125252, 125259>>, <<127995, 127999>>, <<917505, 917505>>,
    <<917536, 917631>>, <<917760, 917999>>
  >>

\* A decimal digit of Unicode, which \d, int(), float() and time.strptime of
\* Python 3 take beside 0-9
IsUDigit(c) ==
    \/ IsDigit(c)
    \/ IsCodePointName(c) /\ \E z \in ND_ZEROS : CodePoint(c) - z \in 0..9

UDigitVal(c) ==
    IF IsDigit(c) THEN DigitVal(c)
    ELSE CodePoint(c) - (CHOOSE z \in ND_ZEROS : CodePoint(c) - z \in 0..9)

AllUDigits(s) == \A i \in 1..Len(s) : IsUDigit(s[i])

RECURSIVE UDecVal(_)
UDecVal(s) == IF s = <<>> THEN 0
              ELSE 10 * UDecVal(SubSeq(s, 1, Len(s) - 1)) + UDigitVal(s[Len(s)])

\* The white space of str.isspace(): what str.strip() removes and what \s of
\* a regular expression matches
WHITESPACE ==
    { " ", "\t", "\n", "\r", "\f", "U+000B", "U+001C", "U+001D", "U+001E", "U+001F",
      "U+0085", "U+00A0", "U+1680", "U+2000", "U+2001", "U+2002", "U+2003", "U+2004",
      "U+2005", "U+2006", "U+2007", "U+2008", "U+2009", "U+200A", "U+2028", "U+2029",
      "U+202F", "U+205F", "U+3000" }

\* The white space that int() and float() remove: the ASCII white space and
\* the white space outside ASCII, which they first turn into blanks.  The four
\* separators U+001C-U+001F are white space for str.strip() only.
NUMERIC_WHITESPACE == WHITESPACE \ {"U+001C", "U+001D", "U+001E", "U+001F"}

RECURSIVE LStripSpace(_, _)
LStripSpace(s, space) ==
    IF s # <<>> /\ s[1] \in space THEN LStripSpace(Tail(s), space) ELSE s

RECURSIVE RStripSpace(_, _)
RStripSpace(s, space) ==
    IF s # <<>> /\ s[Len(s)] \in space
    THEN RStripSpace(SubSeq(s, 1, Len(s) - 1), space) ELSE s

\* s.strip()
Strip(s) == RStripSpace(LStripSpace(s, WHITESPACE), WHITESPACE)

\* s as int() and float() read it, without the white space around it
NumStrip(s) == RStripSpace(LStripSpace(s, NUMERIC_WHITESPACE), NUMERIC_WHITESPACE)

RECURSIVE DecVal(_)
DecVal(s) == IF s = <<>> THEN 0
             ELSE 10 * DecVal(SubSeq(s, 1, Len(s) - 1)) + DigitVal(s[Len(s)])

\* str(n).zfill(w): the decimal digits of n >= 0, zero-padded to width w
RECURSIVE Pad(_, _)
Pad(n, w) == IF w <= 1 /\ n < 10 THEN <<DIGITS[n + 1]>>
             ELSE Pad(n \div 10, w - 1) \o <<DIGITS[(n % 10) + 1]>>

\* s.split(sep) for a one-character separator
RECURSIVE Split(_, _)
Split(s, sep) ==
    IF \A i \in 1..Len(s) : s[i] # sep THEN <<s>>
    ELSE LET k == CHOOSE i \in 1..Len(s) : s[i] = sep /\ \A j \in 1..(i - 1) : s[j] # sep
         IN  <<SubSeq(s, 1, k - 1)>> \o Split(SubSeq(s, k + 1, Len(s)), sep)

\* sep.join(parts), sep a character string
RECURSIVE Join(_, _)
Join(parts, sep) ==
    IF parts = <<>> THEN <<>>
    ELSE IF Len(parts) = 1 THEN parts[1]
    ELSE parts[1] \o sep \o Join(Tail(parts), sep)

LOWERS == <<"a", "b", "c", "d", "e", "f", "g", "h", "i", "j", "k", "l", "m",
           "n", "o", "p", "q", "r", "s", "t", "u", "v", "w", "x", "y", "z">>

UPPERS == <<"A", "B", "C", "D", "E", "F", "G", "H", "I", "J", "K", "L", "M",
           "N", "O", "P", "Q", "R", "S", "T", "U", "V", "W", "X", "Y", "Z">>

IsLower(c) == \E i \in 1..26 : LOWERS[i] = c

IsUpper(c) == \E i \in 1..26 : UPPERS[i] = c

\* \w: a letter, a digit or the underscore, of any script
IsWord(c) ==
    \/ IsLower(c) \/ IsUpper(c) \/ IsDigit(c) \/ c = "_"
    \/ IsCodePointName(c) /\ InRanges(WORD_RANGES, CodePoint(c))

\* The ASCII lower case, in which float() reads inf, infinity and nan
AsciiLower(s) ==
    [i \in 1..Len(s) |-> IF IsUpper(s[i]) THEN LOWERS[CHOOSE k \in 1..26 : UPPERS[k] = s[i]]
                         ELSE s[i]]

\* The character of a code point: a code point that a letter is lowered to
\* is that of a lower-case letter of ASCII or lies outside ASCII
CharOf(n) == IF n >= 97 /\ n <= 122 THEN LOWERS[n - 96] ELSE CodePointName(n)

LowerCodePoint(n) ==
    IF \E i \in DOMAIN LOWER_RUNS :
          /\ LOWER_RUNS[i][1] <= n /\ n <= LOWER_RUNS[i][2]
          /\ (n - LOWER_RUNS[i][1]) % LOWER_RUNS[i][3] = 0
    THEN n + LOWER_RUNS[CHOOSE i \in DOMAIN LOWER_RUNS :
                          /\ LOWER_RUNS[i][1] <= n /\ n <= LOWER_RUNS[i][2]
                          /\ (n - LOWER_RUNS[i][1]) % LOWER_RUNS[i][3] = 0][4]
    ELSE n

\* c.lower() of a character that is lowered to one character
LowerChar(c) ==
    IF IsUpper(c) THEN LOWERS[CHOOSE i \in 1..26 : UPPERS[i] = c]
    ELSE IF IsCodePointName(c) THEN CharOf(LowerCodePoint(CodePoint(c)))
    ELSE c

CAPITAL_SIGMA == "U+03A3"

DOTTED_CAPITAL_I == "U+0130"

IsCaseIgnorable(c) ==
    \/ c \in {"'", ".", ":", "^", "U+0060"}
    \/ IsCodePointName(c) /\ InRanges(CASE_IGNORABLE_RANGES, CodePoint(c))

IsCased(c) ==
    \/ IsLower(c) \/ IsUpper(c)
    \/ IsCodePointName(c) /\ InRanges(CASED_RANGES, CodePoint(c))

\* The capital sigma s[i] ends a word: a cased character precedes it and none
\* follows it, the case-ignorable characters between them passed over
FinalSigma(s, i) ==
    /\ \E j \in 1..(i - 1) :
          /\ IsCased(s[j])
          /\ \A k \in (j + 1)..(i - 1) : IsCaseIgnorable(s[k])
    /\ ~ \E j \in (i + 1)..Len(s) :
          /\ IsCased(s[j])
          /\ \A k \in (i + 1)..(j - 1) : IsCaseIgnorable(s[k])

LowerAt(s, i) ==
    IF s[i] = CAPITAL_SIGMA THEN (IF FinalSigma(s, i) THEN "U+03C2" ELSE "U+03C3")
    ELSE LowerChar(s[i])

\* The capital I with a dot is lowered to i and the combining dot above
RECURSIVE LowerDotted(_)
LowerDotted(s) ==
    IF \A i \in 1..Len(s) : s[i] # DOTTED_CAPITAL_I THEN s
    ELSE LET k == CHOOSE i \in 1..Len(s) :
                      s[i] = DOTTED_CAPITAL_I /\ \A j \in 1..(i - 1) : s[j] # DOTTED_CAPITAL_I
         IN  SubSeq(s, 1, k - 1) \o <<"i", "U+0307">> \o LowerDotted(SubSeq(s, k + 1, Len(s)))

\* s.lower()
Lower(s) == LowerDotted([i \in 1..Len(s) |-> LowerAt(s, i)])

\* s.replace(c, '')
RECURSIVE Without(_, _)
Without(s, c) ==
    IF s = <<>> THEN <<>>
    ELSE (IF s[1] = c THEN <<>> ELSE <<s[1]>>) \o Without(Tail(s), c)

Last(s) == s[Len(s)]

----------------------------------------------------------------------------
(* LivestreamfailsIE (livestreamfails.py) *)

LSF_VIDEO_PREFIX == "https://livestreamfails-video-prod.b-cdn.net/video/"

LSF_IMAGE_PREFIX == "https://livestreamfails-image-prod.b-cdn.net/image/"

LSF_API_PREFIX == "https://api.livestreamfails.com/clip/"

\* _VALID_URL: a URL is a token sequence <<scheme, "://", host, path>> followed
\* by the characters after "/clip/"; the id group is the longest leading run
\* of digits, which must not be empty.
LsfHead(url) == SubSeq(url, 1, 4)

LsfRest(url) == SubSeq(url, 5, Len(url))

RECURSIVE DigitRun(_)
DigitRun(s) == IF s = <<>> \/ ~IsDigit(s[1]) THEN <<>>
               ELSE <<s[1]>> \o DigitRun(Tail(s))

LsfSuitable(url) ==
    /\ Len(url) >= 4
    /\ url[1] \in {"http", "https"}
    /\ url[2] = "://"
    /\ url[3] \in {"livestreamfails.com", "www.livestreamfails.com"}
    /\ url[4] = "/clip/"
    /\ DigitRun(LsfRest(url)) # <<>>

LsfMatchId(url) == DigitRun(LsfRest(url))

\* time.strptime(s, '%Y-%m-%dT%H:%M:%S.%fZ'): None stands for ValueError,
\* otherwise the fields <<year, month, day, hour, minute, second>> that
\* calendar.timegm reads (the fraction %f is parsed and not kept).
IsLeap(y) == y % 4 = 0 /\ (y % 100 # 0 \/ y % 400 = 0)

DaysInMonth(y, m) ==
    IF m = 2 THEN (IF IsLeap(y) THEN 29 ELSE 28)
    ELSE IF m \in {4, 6, 9, 11} THEN 30 ELSE 31

\* The patterns of _strptime for the directives of the format; the format is
\* compiled with re.IGNORECASE and \d takes every decimal digit.
Between(c, lo, hi) == IsDigit(c) /\ DigitVal(c) >= lo /\ DigitVal(c) <= hi

\* %Y: \d\d\d\d
FieldYear(s) == Len(s) = 4 /\ AllUDigits(s)

\* %m: 1[0-2]|0[1-9]|[1-9]
FieldMonth(s) ==
    \/ Len(s) = 2 /\ s[1] = "1" /\ Between(s[2], 0, 2)
    \/ Len(s) = 2 /\ s[1] = "0" /\ Between(s[2], 1, 9)
    \/ Len(s) = 1 /\ Between(s[1], 1, 9)

\* %d: 3[0-1]|[1-2]\d|0[1-9]|[1-9]| [1-9]
FieldDay(s) ==
    \/ Len(s) = 2 /\ s[1] = "3" /\ Between(s[2], 0, 1)
    \/ Len(s) = 2 /\ Between(s[1], 1, 2) /\ IsUDigit(s[2])
    \/ Len(s) = 2 /\ s[1] = "0" /\ Between(s[2], 1, 9)
    \/ Len(s) = 1 /\ Between(s[1], 1, 9)
    \/ Len(s) = 2 /\ s[1] = " " /\ Between(s[2], 1, 9)

\* %H: 2[0-3]|[0-1]\d|\d
FieldHour(s) ==
    \/ Len(s) = 2 /\ s[1] = "2" /\ Between(s[2], 0, 3)
    \/ Len(s) = 2 /\ Between(s[1], 0, 1) /\ IsUDigit(s[2])
    \/ Len(s) = 1 /\ IsUDigit(s[1])

\* %M: [0-5]\d|\d
FieldMinute(s) ==
    \/ Len(s) = 2 /\ Between(s[1], 0, 5) /\ IsUDigit(s[2])
    \/ Len(s) = 1 /\ IsUDigit(s[1])

\* %S: 6[0-1]|[0-5]\d|\d
FieldSecond(s) ==
    \/ Len(s) = 2 /\ s[1] = "6" /\ Between(s[2], 0, 1)
    \/ FieldMinute(s)

\* %f: [0-9]{1,6}
FieldFraction(s) == Len(s) >= 1 /\ Len(s) <= 6 /\ AllDigits(s)

\* int() of a matched field
FieldVal(s) == UDecVal(NumStrip(s))

\* s.split(sep) for a separator written in either case
RECURSIVE SplitEither(_, _)
SplitEither(s, seps) ==
    IF \A i \in 1..Len(s) : s[i] \notin seps THEN <<s>>
    ELSE LET k == CHOOSE i \in 1..Len(s) : s[i] \in seps /\ \A j \in 1..(i - 1) : s[j] \notin seps
         IN  <<SubSeq(s, 1, k - 1)>> \o SplitEither(SubSeq(s, k + 1, Len(s)), seps)

Strptime(s) ==
    LET dt == SplitEither(s, {"T", "t"}) IN
    IF Len(dt) # 2 THEN None
    ELSE
    LET d == Split(dt[1], "-")
        tz == dt[2] IN
    IF Len(d) # 3 \/ tz = <<>> \/ Last(tz) \notin {"Z", "z"} THEN None
    ELSE
    LET t == Split(SubSeq(tz, 1, Len(tz) - 1), ":") IN
    IF Len(t) # 3 THEN None
    ELSE
    LET sf == Split(t[3], ".") IN
    IF Len(sf) # 2 THEN None
    ELSE IF ~ /\ FieldYear(d[1])
              /\ FieldMonth(d[2])
              /\ FieldDay(d[3])
              /\ FieldHour(t[1])
              /\ FieldMinute(t[2])
              /\ FieldSecond(sf[1])
              /\ FieldFraction(sf[2])
         THEN None
    ELSE IF FieldVal(d[1]) < 1 THEN None
    ELSE IF FieldVal(d[3]) > DaysInMonth(FieldVal(d[1]), FieldVal(d[2])) THEN None
    ELSE Some(<<FieldVal(d[1]), FieldVal(d[2]), FieldVal(d[3]),
                FieldVal(t[1]), FieldVal(t[2]), FieldVal(sf[1])>>)

\* calendar.timegm: datetime.date(year, month, 1).toordinal() - _EPOCH_ORD
\* + day - 1 days, then hours, minutes and seconds added.
DaysBeforeYear(y) ==
    (y - 1) * 365 + ((y - 1) \div 4) - ((y - 1) \div 100) + ((y - 1) \div 400)

RECURSIVE DaysBeforeMonth(_, _)
DaysBeforeMonth(y, m) ==
    IF m = 1 THEN 0 ELSE DaysBeforeMonth(y, m - 1) + DaysInMonth(y, m - 1)

ToOrdinal(y, m, d) == DaysBeforeYear(y) + DaysBeforeMonth(y, m) + d

EPOCH_ORD == ToOrdinal(1970, 1, 1)

Timegm(st) ==
    LET days == ToOrdinal(st[1], st[2], 1) - EPOCH_ORD + st[3] - 1
    IN  ((days * 24 + st[4]) * 60 + st[5]) * 60 + st[6]

\* A variant that reads the parsed time as local time (time.mktime)
LsfTimestampLocal(createdAt, tz) ==
    IF IsNone(createdAt) \/ Val(createdAt) = <<>> THEN Return(createdAt)
    ELSE LET st == Strptime(Val(createdAt))
         IN  IF IsNone(st) THEN Raise("ValueError")
             ELSE Return(Some(Timegm(Val(st)) - tz))

\* The timestamp of lines 35-40, or the exception that ends the call.  tz is the
\* offset of the local time zone in seconds, which calendar.timegm does not read.
\* A createdAt that is missing or '' is not parsed and is returned as it is.
LsfTimestamp(createdAt, tz) ==
    IF IsNone(createdAt) \/ Val(createdAt) = <<>> THEN Return(createdAt)
    ELSE LET st == Strptime(Val(createdAt))
         IN  IF IsNone(st) THEN Raise("ValueError")
             ELSE Return(Some(Timegm(Val(st))))

LsfConcat(prefix, v) ==
    IF IsNone(v) THEN Raise("TypeError") ELSE Return(prefix \o Val(v))

\* null in a JSON document, where the code tells it from a missing key
JSON_NULL == [null |-> TRUE]

\* Line 48, api_response.get('streamer', {}).get('label'): the default {} is
\* taken for a missing key only, and a null streamer has no get
LsfStreamerLabel(streamer) ==
    IF IsNone(streamer) THEN Return(None)
    ELSE IF Val(streamer) = JSON_NULL THEN Raise("AttributeError")
    ELSE Return(Val(streamer).label)

\* Lines 42-50: the entries of the record are evaluated in the order written
LsfRecord(id, api_response, ts, video, creator, image) ==
    IF video.kind = "raise" THEN video
    ELSE IF creator.kind = "raise" THEN creator
    ELSE IF image.kind = "raise" THEN image
    ELSE Return([id |-> id,
                 display_id |-> api_response.sourceId,
                 timestamp |-> ts,
                 url |-> video.value,
                 title |-> api_response.label,
                 creator |-> creator.value,
                 thumbnail |-> Some(image.value)])

\* Lines 35-50, for the document the API answered
LsfExtract(id, api_response, ts) ==
    IF ts.kind = "raise" THEN ts
    ELSE LsfRecord(id, api_response, ts.value,
                   LsfConcat(LSF_VIDEO_PREFIX, api_response.videoId),
                   LsfStreamerLabel(api_response.streamer),
                   LsfConcat(LSF_IMAGE_PREFIX, api_response.imageId))

\* api is None when the download of line 32 fails, which is fatal
LsfRealExtract(url, api, tz) ==
    IF IsNone(api) THEN Raise("ExtractorError")
    ELSE LsfExtract(LsfMatchId(url), Val(api), LsfTimestamp(Val(api).createdAt, tz))

\* The inputs: URLs that _VALID_URL accepts (the first is the one of _TESTS),
\* the instants the API may report and the ways it may write them.
LsfUrls ==
    { <<"https", "://", "livestreamfails.com", "/clip/", "1", "3", "9", "2", "0", "0">>,
      <<"http", "://", "www.livestreamfails.com", "/clip/", "7", "/", "x">>,
      <<"https", "://", "www.livestreamfails.com", "/clip/", "4", "2", "?", "a", "=", "1">> }

LsfInstants ==
    { <<2022, 6, 26, 19, 29, 45>>, <<1970, 1, 1, 0, 0, 0>>, <<2000, 2, 29, 23, 59, 59>>,
      <<2024, 3, 1, 0, 0, 0>>, <<2037, 12, 31, 23, 59, 59>>, <<2023, 2, 30, 1, 1, 1>> }

LsfFractions == { Some(<<"5", "1", "5">>), Some(<<"0">>), None }

LsfZones == { 0, 3600, 0 - 18000 }

\* The API's text of an instant: YYYY-MM-DDTHH:MM:SS[.f]Z
FormatIso(t, frac) ==
    Pad(t[1], 4) \o <<"-">> \o Pad(t[2], 2) \o <<"-">> \o Pad(t[3], 2) \o <<"T">>
    \o Pad(t[4], 2) \o <<":">> \o Pad(t[5], 2) \o <<":">> \o Pad(t[6], 2)
    \o (IF IsNone(frac) THEN <<>> ELSE <<".">> \o Val(frac)) \o <<"Z">>

\* How the text is written: "iso" as FormatIso writes it, "lower" with t and z
\* in lower case, "blank" with a blank for the leading zero of the day,
\* "devanagari" and "fullwidth" with the digits of those scripts wherever the
\* pattern of the field has \d, and "empty" for the empty string
LsfCreated ==
    {None}
    \cup { Some([t |-> t, frac |-> f, form |-> "iso"]) : t \in LsfInstants, f \in LsfFractions }
    \cup { Some([t |-> t, frac |-> Some(<<"5", "1", "5">>), form |-> w]) :
               t \in {<<2022, 6, 26, 19, 29, 45>>, <<2024, 3, 1, 0, 0, 0>>},
               w \in {"lower", "blank", "devanagari", "fullwidth", "empty"} }

LowerTZ(c) == IF c = "T" THEN "t" ELSE IF c = "Z" THEN "z" ELSE c

\* The day of YYYY-MM-DD written with a blank in place of its leading zero
BlankDay(text) == IF text[9] = "0" THEN [text EXCEPT ![9] = " "] ELSE text

\* The places of YYYY-MM-DDTHH:MM:SS where the pattern of strptime has \d: the
\* year, and the second digit of a day 1x or 2x, of an hour 0x or 1x, of the
\* minute and of a second below 60
IsAnyDigitPlace(text, i) ==
    \/ i \in 1..4
    \/ i = 10 /\ text[9] \in {"1", "2"}
    \/ i = 13 /\ text[12] \in {"0", "1"}
    \/ i = 16
    \/ i = 19 /\ text[18] # "6"

\* The text with the digits of those places taken from the script whose zero
\* is the code point zero
InScript(text, zero) ==
    [i \in 1..Len(text) |->
        IF IsAnyDigitPlace(text, i) THEN CodePointName(zero + DigitVal(text[i]))
        ELSE text[i]]

DEVANAGARI_ZERO == 2406

FULLWIDTH_ZERO == 65296

LsfText(created) ==
    LET iso == FormatIso(created.t, created.frac)
    IN  CASE created.form = "iso" -> iso
          [] created.form = "lower" -> [i \in 1..Len(iso) |-> LowerTZ(iso[i])]
          [] created.form = "blank" -> BlankDay(iso)
          [] created.form = "devanagari" -> InScript(iso, DEVANAGARI_ZERO)
          [] created.form = "fullwidth" -> InScript(iso, FULLWIDTH_ZERO)
          [] created.form = "empty" -> <<>>

LsfApiResponses ==
    [ videoId : Opt({"3877b.mp4"}),
      imageId : Opt({"3877b.png"}),
      sourceId : Opt({"ConcernedSalmon"}),
      label : Opt({"Streamer jumps"}),
      streamer : Opt({JSON_NULL} \cup [label : Opt({"paradeev1ch"})]) ]

LsfNoFields ==
    [videoId |-> None, imageId |-> None, sourceId |-> None, label |-> None, streamer |-> None]

LsfApi(fields, created) ==
    [ createdAt |-> IF IsNone(created) THEN None
                    ELSE Some(LsfText(Val(created))),
      videoId |-> fields.videoId,
      imageId |-> fields.imageId,
      sourceId |-> fields.sourceId,
      label |-> fields.label,
      streamer |-> fields.streamer ]

LivestreamfailsRealExtract ==
    /\ pc = "idle"
    /\ \E url \in LsfUrls, tz \in LsfZones, download \in BOOLEAN,
          fields \in LsfApiResponses, created \in LsfCreated :
         /\ LsfSuitable(url)
         /\ ~download => (fields = LsfNoFields /\ created = None)
         /\ inp' = [url |-> url, created |-> created, tz |-> tz,
                    api |-> IF download THEN Some(LsfApi(fields, created)) ELSE None]
         /\ out' = LsfRealExtract(url, IF download THEN Some(LsfApi(fields, created)) ELSE None, tz)
         /\ log' = << <<LSF_API_PREFIX>> \o LsfMatchId(url) >>
    /\ ie' = "LivestreamfailsIE"
    /\ pc' = "done"
    /\ loc' = <<>>
    /\ UNCHANGED sections

----------------------------------------------------------------------------
(* InfoExtractor._sort_formats (extractor/common.py) *)

\* The preference of a container: ORDER = ['webm', 'flv', 'mp4'], others -1.
ExtPref(ext) ==
    IF ext = Some("mp4") THEN 2
    ELSE IF ext = Some("flv") THEN 1
    ELSE IF ext = Some("webm") THEN 0
    ELSE 0 - 1

NumKey(o) == IF IsNone(o) THEN 0 - 1 ELSE Val(o)

\* Higher resolution, then higher bitrate, then the container preference.
SortKey(f) == <<NumKey(f.height), NumKey(f.width), NumKey(f.tbr), ExtPref(f.ext)>>

RECURSIVE LexLess(_, _)
LexLess(a, b) ==
    IF a = <<>> THEN FALSE
    ELSE IF a[1] # b[1] THEN a[1] < b[1]
    ELSE LexLess(Tail(a), Tail(b))

\* f placed after the last element whose key is not greater: a stable sort.
RECURSIVE InsertFormat(_, _)
InsertFormat(sorted, f) ==
    IF sorted = <<>> THEN <<f>>
    ELSE IF LexLess(SortKey(f), SortKey(Last(sorted)))
         THEN InsertFormat(SubSeq(sorted, 1, Len(sorted) - 1), f) \o <<Last(sorted)>>
         ELSE sorted \o <<f>>

RECURSIVE SortedFormats(_)
SortedFormats(formats) ==
    IF formats = <<>> THEN <<>>
    ELSE InsertFormat(SortedFormats(SubSeq(formats, 1, Len(formats) - 1)), Last(formats))

\* The sort step with its order turned round: best first, worst last
SortFormatsBestFirst(formats) ==
    IF formats = <<>> THEN Raise("ExtractorError")
    ELSE Return([i \in 1..Len(formats) |->
                    SortedFormats(formats)[Len(formats) + 1 - i]])

\* _sort_formats(formats): worst first, best last; an empty list is an error.
SortFormats(formats) ==
    IF formats = <<>> THEN Raise("ExtractorError")
    ELSE Return(SortedFormats(formats))

Format(url, format_id, ext, width, height, tbr) ==
    [url |-> url, format_id |-> format_id, ext |-> ext,
     width |-> width, height |-> height, tbr |-> tbr]

----------------------------------------------------------------------------
(* NRKTVIE._str2seconds (nrk.py) *)

MaxParts == 3

\* A natural number of any size, as the integers of Python are: the sequence
\* of its decimal digits, the most significant first and no zero in front;
\* <<>> is 0.
StripZeros(a) ==
    IF \A i \in 1..Len(a) : a[i] = 0 THEN <<>>
    ELSE SubSeq(a, CHOOSE i \in 1..Len(a) : a[i] # 0 /\ \A j \in 1..(i - 1) : a[j] = 0, Len(a))

Zeros(k) == [i \in 1..k |-> 0]

RECURSIVE NatDigits(_)
NatDigits(n) == IF n = 0 THEN <<>> ELSE Append(NatDigits(n \div 10), n % 10)

\* The digit of a at place i of n places, zeros put in front of a
PlaceOf(a, n, i) == IF i > n - Len(a) THEN a[i - (n - Len(a))] ELSE 0

NatLess(a, b) ==
    \/ Len(a) < Len(b)
    \/ Len(a) = Len(b) /\ \E i \in 1..Len(a) : a[i] < b[i] /\ \A k \in 1..(i - 1) : a[k] = b[k]

\* A one is carried into place i of the sum of a and b
Carry(a, b, n, i) ==
    \E j \in (i + 1)..n :
        /\ PlaceOf(a, n, j) + PlaceOf(b, n, j) >= 10
        /\ \A k \in (i + 1)..(j - 1) : PlaceOf(a, n, k) + PlaceOf(b, n, k) = 9

NatSum(a, b, n) ==
    [i \in 1..n |-> (PlaceOf(a, n, i) + PlaceOf(b, n, i)
                     + (IF Carry(a, b, n, i) THEN 1 ELSE 0)) % 10]

\* a + b
NatAdd(a, b) == StripZeros(NatSum(a, b, 1 + (IF Len(a) > Len(b) THEN Len(a) ELSE Len(b))))

\* A one is borrowed from place i of the difference of a and b
Borrow(a, b, n, i) ==
    \E j \in (i + 1)..n :
        /\ PlaceOf(a, n, j) < PlaceOf(b, n, j)
        /\ \A k \in (i + 1)..(j - 1) : PlaceOf(a, n, k) = PlaceOf(b, n, k)

NatDifference(a, b, n) ==
    [i \in 1..n |-> (10 + PlaceOf(a, n, i) - PlaceOf(b, n, i)
                     - (IF Borrow(a, b, n, i) THEN 1 ELSE 0)) % 10]

\* a - b, for a >= b
NatSub(a, b) == StripZeros(NatDifference(a, b, Len(a)))

\* 2 * a: a one is carried into a place when the digit after it is 5 at least
NatDouble(a) ==
    StripZeros([i \in 1..(Len(a) + 1) |->
                   (IF i = 1 THEN 0 ELSE (2 * a[i - 1]) % 10)
                   + (IF i <= Len(a) /\ a[i] >= 5 THEN 1 ELSE 0)])

\* a \div 2: a five comes into a place when the digit before it is odd
NatHalve(a) ==
    StripZeros([i \in 1..Len(a) |->
                   (a[i] \div 2) + (IF i > 1 /\ a[i - 1] % 2 = 1 THEN 5 ELSE 0)])

NatOdd(a) == a # <<>> /\ a[Len(a)] % 2 = 1

NatTimes3(a) == NatAdd(NatDouble(a), a)

NatTimes5(a) == NatHalve(Append(a, 0))

\* a * 2^k and a * 5^k
RECURSIVE NatTimesPow2(_, _)
NatTimesPow2(a, k) ==
    IF a = <<>> \/ k = 0 THEN a
    ELSE IF k = 1 THEN NatDouble(a)
    ELSE NatTimesPow2(NatTimesPow2(a, k \div 2), k - k \div 2)

RECURSIVE NatTimesPow5(_, _)
NatTimesPow5(a, k) ==
    IF a = <<>> \/ k = 0 THEN a
    ELSE IF k = 1 THEN NatTimes5(a)
    ELSE NatTimesPow5(NatTimesPow5(a, k \div 2), k - k \div 2)

\* The sums of the first digits of a[lo..hi]: its first, its first two, ...
PrefixJoin(l, r) == l \o [i \in 1..Len(r) |-> r[i] + l[Len(l)]]

RECURSIVE PrefixSums(_, _, _)
PrefixSums(a, lo, hi) ==
    IF lo = hi THEN <<a[lo]>>
    ELSE PrefixJoin(PrefixSums(a, lo, (lo + hi) \div 2),
                    PrefixSums(a, (lo + hi) \div 2 + 1, hi))

\* a \div k and a % k for k = 3 and k = 9, of which every power of 10 leaves
\* the rest 1: the digits before a place leave the rest of their sum
NatDivBy(a, k, sums) ==
    StripZeros([i \in 1..Len(a) |->
                   (10 * (IF i = 1 THEN 0 ELSE sums[i - 1] % k) + a[i]) \div k])

NatRemBy(a, k, sums) == sums[Len(a)] % k

\* 10^n % k and the number of the digits a[lo..hi] % k, for a small k
RECURSIVE Pow10Mod(_, _)
Pow10Mod(n, k) ==
    IF n = 0 THEN 1 % k
    ELSE IF n = 1 THEN 10 % k
    ELSE (Pow10Mod(n \div 2, k) * Pow10Mod(n - n \div 2, k)) % k

RECURSIVE NatMod(_, _, _, _)
NatMod(a, lo, hi, k) ==
    IF lo > hi THEN 0
    ELSE IF lo = hi THEN a[lo] % k
    ELSE (NatMod(a, lo, (lo + hi) \div 2, k) * Pow10Mod(hi - (lo + hi) \div 2, k)
          + NatMod(a, (lo + hi) \div 2 + 1, hi, k)) % k

NatTimes10(a) == IF a = <<>> THEN <<>> ELSE Append(a, 0)

\* a * 10^k
NatTimesPow10(a, k) == IF a = <<>> THEN <<>> ELSE a \o Zeros(k)

\* 60 * a and 3600 * a
NatTimes60(a) == NatTimes10(NatDouble(NatTimes3(a)))

NatTimes3600(a) == NatTimes60(NatTimes60(a))

\* A float of Python: the decimal number sign * digits / 10^d that the double
\* holds (every double is such a number), written without trailing zeros of
\* the fraction, or one of inf, -inf and nan.  The result of float(), of a
\* sum, a product and a quotient is the double nearest to the exact result,
\* the one with the even mantissa of two that are as near; beyond the range
\* of a double it is inf.
Finite(sign, digits, d) == [float |-> "finite", sign |-> sign, digits |-> digits, d |-> d]

\* The zeros at the end of a
TrailingZeros(a) ==
    IF \A i \in 1..Len(a) : a[i] = 0 THEN Len(a)
    ELSE Len(a) - (CHOOSE i \in 1..Len(a) : a[i] # 0 /\ \A j \in (i + 1)..Len(a) : a[j] = 0)

Min(x, y) == IF x < y THEN x ELSE y

Max(x, y) == IF x > y THEN x ELSE y

\* digits without zeros in front, d >= 0 and no zero at the end of a fraction
Normal(sign, digits, d) ==
    IF d < 0 THEN Finite(sign, NatTimesPow10(digits, 0 - d), 0)
    ELSE Finite(sign, SubSeq(digits, 1, Len(digits) - Min(TrailingZeros(digits), d)),
                IF digits = <<>> THEN 0 ELSE d - Min(TrailingZeros(digits), d))

\* n / 10^d for an integer n of the model
Dec(n, d) == Normal(IF n < 0 THEN 0 - 1 ELSE 1, NatDigits(IF n < 0 THEN 0 - n ELSE n), d)

Inf(sign) == [float |-> "inf", sign |-> sign, digits |-> <<>>, d |-> 0]

NaN == [float |-> "nan", sign |-> 1, digits |-> <<>>, d |-> 0]

\* 2^1024 - 2^970, the least number that is rounded to inf
DBL_MAX_ROUNDED ==
    "179769313486231580793728971405303415079934132710037826936173" \o
    "778980444968292764750946649017977587207096330286416692887910" \o
    "946555547851940402630657488671505820681908902000708383676273" \o
    "854845817711531764475730270069855571366959622842914819860834" \o
    "936475292719074168444365510704342711559699508093042880177904" \o
    "174497792"

\* 5^1075: 2^-1075 = 5^1075 / 10^1075 is the greatest number that is rounded to zero
DBL_MIN_ROUNDED ==
    "247032822920623272088284396434110686182529901307162382212792" \o
    "841250337753635104375932649918180817996189898282347722858865" \o
    "463328355177969898199387398005390939063150356595155702263922" \o
    "908583924491051844359318028499365361525003193704576782492193" \o
    "656236698636584807570015857692699037063119282795585513329278" \o
    "343384093519780155312465972635795746227664652728272200563740" \o
    "064854999770965994704540208281662262378573934507363390079677" \o
    "619305775067401763246736009689513405355374585166611342237666" \o
    "786041621596804619144672918403005300575308490487653917113865" \o
    "916462395249126236538818796362393732804238910186723484976682" \o
    "350898633885879256283027559956575244555072551893136908362547" \o
    "791869486679949683240497058210285131854513962138377228261454" \o
    "37693412532098591327667236328125"

DigitsOf(text) == [i \in 1..Len(text) |-> DigitVal(SubSeq(text, i, i))]

\* The digit at place i after the point of the fraction 0.a
FractionPlace(a, i) == IF i <= Len(a) THEN a[i] ELSE 0

\* 0.a < 0.b, for the fractions that the digits a and b write
FractionLess(a, b) ==
    \E i \in 1..Max(Len(a), Len(b)) :
        /\ FractionPlace(a, i) < FractionPlace(b, i)
        /\ \A k \in 1..(i - 1) : FractionPlace(a, k) = FractionPlace(b, k)

\* The number 0.m * 10^p, m without zeros in front, is rounded to inf: it is
\* 2^1024 - 2^970 at least
Overflows(m, p) ==
    \/ p > Len(DBL_MAX_ROUNDED)
    \/ p = Len(DBL_MAX_ROUNDED) /\ ~FractionLess(m, DigitsOf(DBL_MAX_ROUNDED))

\* The number 0.m * 10^p is rounded to zero: it is 2^-1075 at most
Underflows(m, p) ==
    \/ p < Len(DBL_MIN_ROUNDED) - 1075
    \/ p = Len(DBL_MIN_ROUNDED) - 1075 /\ ~FractionLess(DigitsOf(DBL_MIN_ROUNDED), m)

\* A lower bound of the binary logarithm of 10^n
Log2Pow10(n) == IF n >= 0 THEN (n * 3321) \div 1000 ELSE (n * 3322) \div 1000

\* 2^53: the mantissa of a double is less
TWO_53 == DigitsOf("9007199254740992")

\* sign * m * 2^q
DoubleValue(sign, m, q) ==
    IF q >= 0 THEN Normal(sign, NatTimesPow2(m, q), 0)
    ELSE Normal(sign, NatTimesPow5(m, 0 - q), 0 - q)

\* The mantissa and the binary exponent of the double nearest to
\* (h + rest) * 2^q, where 0 <= rest < 1 and `sticky' tells that rest > 0:
\* bits of h are dropped, one at least, until the mantissa is less than 2^53;
\* it is rounded up when the part dropped is more than half a unit, and when
\* it is half a unit and the mantissa is odd
RECURSIVE MantissaOf(_, _, _)

MantissaRounded(m, bit, q, sticky) ==
    IF ~NatLess(m, TWO_53) THEN MantissaOf(m, q, sticky \/ bit)
    ELSE [m |-> IF bit /\ (sticky \/ NatOdd(m)) THEN NatAdd(m, <<1>>) ELSE m, q |-> q]

MantissaOf(h, q, sticky) == MantissaRounded(NatHalve(h), NatOdd(h), q + 1, sticky)

RoundMantissa(sign, r) == DoubleValue(sign, r.m, r.q)

\* For the quotient t of the division by k with rest `rest': the number
\* (t + rest / k) / 10^w * 2^q
RoundQuotient(sign, t, rest, w, q) ==
    RoundMantissa(sign,
        MantissaOf(IF Len(t) > w THEN SubSeq(t, 1, Len(t) - w) ELSE <<>>, q,
                   rest \/ \E i \in Max(1, Len(t) - w + 1)..Len(t) : t[i] # 0))

RoundDivided(sign, num, k, sums, w, q) ==
    RoundQuotient(sign, NatDivBy(num, k, sums), NatRemBy(num, k, sums) # 0, w, q)

\* The number num / (3^b * 10^w) * 2^q
RoundNumerator(sign, num, b, w, q) ==
    IF b = 0 THEN RoundQuotient(sign, num, FALSE, w, q)
    ELSE RoundDivided(sign, num, IF b = 1 THEN 3 ELSE 9, PrefixSums(num, 1, Len(num)), w, q)

\* n * 2^x * 5^y * 2^q / 3^b, where x and y may be negative: numerator and
\* denominator are multiplied until the denominator is 3^b * 10^w
RoundScaled(sign, n, x, y, b, q) ==
    RoundNumerator(sign,
        NatTimesPow5(NatTimesPow2(n, Max(x, 0) + Max(Max(0 - x, 0), Max(0 - y, 0)) - Max(0 - x, 0)),
                     Max(y, 0) + Max(Max(0 - x, 0), Max(0 - y, 0)) - Max(0 - y, 0)),
        b, Max(Max(0 - x, 0), Max(0 - y, 0)), q)

\* q is at most the binary exponent of the least bit of the mantissa, less
\* one, and -1075 at least: the least bit of a double is that of 2^-1074
RoundFrom(sign, n, s, h, b, q) == RoundScaled(sign, n, s - h - q, s, b, q)

\* The double nearest to sign * n * 10^s / (2^h * 3^b), which is within the
\* range of a double; b is 0, 1 or 2
RoundRational(sign, n, s, h, b) ==
    IF n = <<>> THEN Normal(sign, <<>>, 0)
    ELSE RoundFrom(sign, n, s, h, b,
                   Max(Log2Pow10(Len(n) + s - 1) - h - 2 * b - 53, 0 - 1075))

\* The double of sign * m / 10^d, for the result of an addition and for an
\* integer that is made a float
Rounded(sign, m, d) ==
    IF Overflows(m, Len(m) - d) THEN Inf(sign)
    ELSE RoundRational(sign, m, 0 - d, 0, 0)

\* a + b of two exact numbers
ExactSum(a, b, x, y, d) ==
    IF a.sign = b.sign THEN Normal(a.sign, NatAdd(x, y), d)
    ELSE IF NatLess(x, y) THEN Normal(b.sign, NatSub(y, x), d)
    ELSE IF x = y THEN Normal(1, <<>>, 0)
    ELSE Normal(a.sign, NatSub(x, y), d)

ExactAdd(a, b) ==
    ExactSum(a, b, NatTimesPow10(a.digits, Max(a.d, b.d) - a.d),
             NatTimesPow10(b.digits, Max(a.d, b.d) - b.d), Max(a.d, b.d))

FiniteAdd(sum) == Rounded(sum.sign, sum.digits, sum.d)

\* a + b of two floats
FloatAdd(a, b) ==
    IF a.float = "nan" \/ b.float = "nan" THEN NaN
    ELSE IF a.float = "inf" /\ b.float = "inf" THEN (IF a.sign = b.sign THEN a ELSE NaN)
    ELSE IF a.float = "inf" THEN a
    ELSE IF b.float = "inf" THEN b
    ELSE FiniteAdd(ExactAdd(a, b))

\* The digits of a number: decimal digits, with single underscores between them
DigitGroup(s) ==
    /\ s # <<>>
    /\ IsUDigit(s[1])
    /\ IsUDigit(s[Len(s)])
    /\ \A i \in 1..Len(s) : IsUDigit(s[i]) \/ s[i] = "_"
    /\ \A i \in 1..(Len(s) - 1) : ~(s[i] = "_" /\ s[i + 1] = "_")

\* s.replace('_', '')
RECURSIVE Flat(_)
Flat(parts) == IF parts = <<>> THEN <<>> ELSE parts[1] \o Flat(Tail(parts))

\* The values of the digits of a group, the underscores left out
DigitValues(s) == [i \in 1..Len(s) |-> UDigitVal(s[i])]

GroupDigits(s) == DigitValues(Flat(Split(s, "_")))

Signed(s) == s # <<>> /\ s[1] \in {"+", "-"}

Unsigned(s) == IF Signed(s) THEN Tail(s) ELSE s

SignOf(s) == IF s # <<>> /\ s[1] = "-" THEN 0 - 1 ELSE 1

INF_NAMES == { <<"i", "n", "f">>, <<"i", "n", "f", "i", "n", "i", "t", "y">> }

NAN_NAME == <<"n", "a", "n">>

\* The digits before and after the point: at most one point, one digit at least
IsMantissa(p) ==
    /\ Len(p) <= 2
    /\ \A i \in 1..Len(p) : p[i] = <<>> \/ DigitGroup(p[i])
    /\ \E i \in 1..Len(p) : p[i] # <<>>

\* A mantissa and, after 'e' or 'E', an exponent with a sign or without
IsDecimal(parts) ==
    /\ Len(parts) <= 2
    /\ IsMantissa(Split(parts[1], "."))
    /\ Len(parts) = 2 => DigitGroup(Unsigned(parts[2]))

IsFloatBody(body) ==
    \/ AsciiLower(body) \in INF_NAMES \cup {NAN_NAME}
    \/ IsDecimal(SplitEither(body, {"e", "E"}))

\* float(s) raises no ValueError: white space around, a sign, then inf,
\* infinity or nan in any case, or digits with at most one point, one digit
\* at least, and an exponent
IsFloatStr(s) == IsFloatBody(Unsigned(NumStrip(s)))

\* The digits after the point
Fraction(p) == IF Len(p) = 2 THEN GroupDigits(p[2]) ELSE <<>>

\* The digits of the mantissa, those before the point and those after it
MantissaDigits(p) == GroupDigits(p[1]) \o Fraction(p)

\* An exponent beyond EXPONENT_BOUND stands for every greater one: the text
\* of a number has fewer digits than that, and the number is inf or zero
EXPONENT_BOUND == 100000000

NatVal(a) == UDecVal([i \in 1..Len(a) |-> DIGITS[a[i] + 1]])

Bounded(a) == IF Len(a) > 8 THEN EXPONENT_BOUND ELSE NatVal(a)

ExponentVal(parts) ==
    IF Len(parts) = 2
    THEN SignOf(parts[2]) * Bounded(StripZeros(GroupDigits(Unsigned(parts[2]))))
    ELSE 0

\* The double of sign * 0.m * 10^p, for the digits m of a text
DoubleOf(sign, m, p) ==
    IF m = <<>> THEN Normal(sign, <<>>, 0)
    ELSE IF Overflows(m, p) THEN Inf(sign)
    ELSE IF Underflows(m, p) THEN Normal(sign, <<>>, 0)
    ELSE RoundRational(sign, m, p - Len(m), 0, 0)

MantissaVal(sign, p, exp) ==
    DoubleOf(sign, StripZeros(MantissaDigits(p)),
             Len(StripZeros(MantissaDigits(p))) - Len(Fraction(p)) + exp)

DecimalVal(sign, parts) == MantissaVal(sign, Split(parts[1], "."), ExponentVal(parts))

FloatBody(sign, body) ==
    IF AsciiLower(body) = NAN_NAME THEN NaN
    ELSE IF AsciiLower(body) \in INF_NAMES THEN Inf(sign)
    ELSE DecimalVal(sign, SplitEither(body, {"e", "E"}))

FloatStripped(stripped) == FloatBody(SignOf(stripped), Unsigned(stripped))

\* float(s) of such a string
FloatVal(s) == FloatStripped(NumStrip(s))

\* float_or_none(v): None for no text and for a text that float() rejects
FloatOrNone(v) ==
    IF IsNone(v) \/ ~IsFloatStr(Val(v)) THEN None ELSE Some(FloatVal(Val(v)))

\* sys.get_int_max_str_digits(): int() raises ValueError for a text of more digits
INT_MAX_STR_DIGITS == 4300

\* int(s) raises no ValueError: white space around, a sign and digits
IsIntStr(s) ==
    /\ DigitGroup(Unsigned(NumStrip(s)))
    /\ Len(GroupDigits(Unsigned(NumStrip(s)))) <= INT_MAX_STR_DIGITS

\* int(s) of such a string, an integer of any size
IntDigits(stripped) == StripZeros(GroupDigits(Unsigned(stripped)))

IntVal(s) ==
    Finite(IF IntDigits(NumStrip(s)) = <<>> THEN 1 ELSE SignOf(NumStrip(s)),
           IntDigits(NumStrip(s)), 0)

\* Line 111, int + float: an integer beyond the range of a double raises
\* OverflowError when it is made a float
IntPlusFloat(n, s) ==
    IF Overflows(n.digits, Len(n.digits) - n.d) THEN Raise("OverflowError")
    ELSE Return(FloatAdd(Rounded(n.sign, n.digits, n.d), s))

\* hours * 3600 + minutes * 60
HoursAndMinutes(hours, minutes) ==
    ExactAdd(Finite(hours.sign, NatTimes3600(hours.digits), 0),
             Finite(minutes.sign, NatTimes60(minutes.digits), 0))

\* Lines 106-111 for the parts of the time code: float(parts[2]) is
\* evaluated first, and only its ValueError is caught
Str2SecondsOf(parts) ==
    IF Len(parts) < 3 THEN Raise("IndexError")
    ELSE IF ~IsIntStr(parts[1]) \/ ~IsIntStr(parts[2]) THEN Raise("ValueError")
    ELSE IntPlusFloat(HoursAndMinutes(IntVal(parts[1]), IntVal(parts[2])),
                      IF IsFloatStr(parts[3]) THEN FloatVal(parts[3]) ELSE Dec(0, 0))

\* The value in seconds, or the exception that leaves the function
Str2Seconds(t) ==
    IF IsNone(t) THEN Raise("AttributeError") ELSE Str2SecondsOf(Split(Val(t), ":"))

\* The fields a time code is written with, and the time codes of up to
\* MaxParts fields joined by colons
TimeFields ==
    { <<"0", "0">>, <<"0", "1">>, <<"5", "1", ".", "5", "2", "0">>,
      <<"-", "2">>, <<"x">>, <<>>,
      <<"+", "1">>, <<" ", "1", " ">>, <<"1", "e", "1">>, <<"i", "n", "f">>,
      <<"0", ".", "0", "0", "0", "9">>, <<"U+00A0", "5">> }

RECURSIVE FieldLists(_)
FieldLists(n) ==
    IF n = 0 THEN {<<>>}
    ELSE {<<>>} \cup { <<f>> \o l : f \in TimeFields, l \in FieldLists(n - 1) }

TimeCodes == { l \in FieldLists(MaxParts) : l # <<>> }

NRKTVStr2Seconds ==
    /\ pc = "idle"
    /\ \E fields \in TimeCodes :
         /\ inp' = [fields |-> fields, t |-> Join(fields, <<":">>)]
         /\ out' = Str2Seconds(Some(Join(fields, <<":">>)))
    /\ ie' = "NRKTVIE._str2seconds"
    /\ pc' = "done"
    /\ loc' = <<>>
    /\ log' = <<>>
    /\ UNCHANGED sections

----------------------------------------------------------------------------
(* NRKTVIE._extract_captions and NRKTVIE._real_extract (nrk.py) *)

MaxCues == 2

F00 == <<"0", "0">>

F01 == <<"0", "1">>

TC_ONE == Join(<<F00, F00, F01>>, <<":">>)

TC_LONG == Join(<<F00, F01, <<"5", "1", ".", "5", "2", "0">> >>, <<":">>)

TC_NEGATIVE == Join(<<F00, F00, <<"-", "2">> >>, <<":">>)

TC_GARBAGE == <<"x">>

TC_INF == Join(<<F00, F00, <<"i", "n", "f">> >>, <<":">>)

TC_NAN == Join(<<F00, F00, <<"n", "a", "n">> >>, <<":">>)

CUE_TEXT == <<"t", "e", "x", "t", " ", "0">>

CUE_MORE == <<"m", "o", "r", "e">>

\* The <p> elements of a subtitle document: the begin and dur attributes and
\* the texts that p.itertext() gives
Cues ==
    { [begin |-> Some(TC_ONE), dur |-> Some(TC_LONG), texts |-> <<CUE_TEXT, CUE_MORE>>],
      [begin |-> Some(TC_LONG), dur |-> Some(TC_NEGATIVE), texts |-> <<CUE_TEXT>>],
      [begin |-> Some(TC_NEGATIVE), dur |-> Some(TC_ONE), texts |-> <<>>],
      [begin |-> Some(TC_ONE), dur |-> None, texts |-> <<CUE_TEXT>>],
      [begin |-> Some(TC_GARBAGE), dur |-> Some(TC_ONE), texts |-> <<CUE_TEXT>>],
      [begin |-> Some(TC_INF), dur |-> Some(TC_ONE), texts |-> <<CUE_TEXT>>],
      [begin |-> Some(TC_ONE), dur |-> Some(TC_NAN), texts |-> <<CUE_TEXT>>] }

RECURSIVE CueLists(_)
CueLists(n) ==
    IF n = 0 THEN {<<>>}
    ELSE {<<>>} \cup { <<c>> \o l : c \in Cues, l \in CueLists(n - 1) }

\* What the subtitle download gives: None when it fails, else the document
CaptionResponses == Opt([lang : Opt({"en"}), ps : CueLists(MaxCues)])

\* x / k of a finite float x, for k = 3600 = 100 * 2^2 * 3^2 and
\* k = 60 = 10 * 2 * 3
FloatDiv(x, k) ==
    IF k = 3600 THEN RoundRational(x.sign, x.digits, 0 - x.d - 2, 2, 2)
    ELSE RoundRational(x.sign, x.digits, 0 - x.d - 1, 1, 1)

\* x * 1000 of a finite float x
FloatTimes1000(x) == Rounded(x.sign, x.digits, x.d - 3)

\* The digits before the point of a finite float, and the d digits after it
IntegerDigits(x) ==
    IF Len(x.digits) > x.d THEN SubSeq(x.digits, 1, Len(x.digits) - x.d) ELSE <<>>

FractionDigits(x) ==
    [i \in 1..x.d |-> PlaceOf(x.digits, Max(x.d, Len(x.digits)),
                              Max(x.d, Len(x.digits)) - x.d + i)]

\* The digits of fmod(x, k), which has the fraction of x
FmodDigits(x, k) ==
    StripZeros(NatDigits(NatMod(IntegerDigits(x), 1, Len(IntegerDigits(x)), k))
               \o FractionDigits(x))

\* x % k of a finite float x and an integer k > 0: fmod(x, k), which is
\* exact and has the sign of x, and k added to it when it is negative; this
\* sum is rounded, so that the result may be k itself
FloatMod(x, k) ==
    IF FmodDigits(x, k) = <<>> THEN Normal(1, <<>>, 0)
    ELSE IF x.sign < 0
    THEN FloatAdd(Normal(0 - 1, FmodDigits(x, k), x.d), Normal(1, NatDigits(k), 0))
    ELSE Normal(1, FmodDigits(x, k), x.d)

DigitChars(a) == [i \in 1..Len(a) |-> DIGITS[a[i] + 1]]

\* The integer with the digits a written in w characters at least, zeros
\* put before the digits and after the sign
FormatInt(negative, a, w) ==
    (IF negative THEN <<"-">> ELSE <<>>)
    \o [i \in 1..(w - Len(a) - (IF negative THEN 1 ELSE 0)) |-> "0"]
    \o DigitChars(a)

\* '%0wd' % x of a finite float x: int(x) drops the fraction
FormatD(x, w) ==
    FormatInt(x.sign < 0 /\ IntegerDigits(x) # <<>>, IntegerDigits(x), w)

\* _seconds2str (lines 113-114): %02d of the first field raises OverflowError
\* for inf and ValueError for nan
Seconds2Str(s) ==
    IF s.float = "inf" THEN Raise("OverflowError")
    ELSE IF s.float = "nan" THEN Raise("ValueError")
    ELSE Return(FormatD(FloatDiv(s, 3600), 2) \o <<":">>
                \o FormatD(FloatDiv(FloatMod(s, 3600), 60), 2) \o <<":">>
                \o FormatD(FloatMod(s, 60), 2) \o <<".">>
                \o FormatD(FloatTimes1000(FloatMod(s, 1)), 3))

CRLF == <<"\r", "\n">>

\* Lines 134-139: the text of the cue at position pos, counted from 0
CaptionText(pos, starttime, endtime, texts) ==
    Pad(pos, 1) \o CRLF \o starttime \o <<" ", "-", "-", ">", " ">> \o endtime \o CRLF
    \o Join(texts, <<"\n">>) \o CRLF \o CRLF

\* Lines 132-133: the texts of the start and the end of a cue, for what
\* _seconds2str gave
CaptionLine(starttime, endtime) ==
    IF starttime.kind = "raise" THEN starttime
    ELSE IF endtime.kind = "raise" THEN endtime
    ELSE Return(<<starttime.value, endtime.value>>)

\* Lines 130-133: the times of a cue, for what _str2seconds gave
CaptionCue(begin, duration) ==
    IF begin.kind = "raise" THEN begin
    ELSE IF duration.kind = "raise" THEN duration
    ELSE CaptionLine(Seconds2Str(begin.value),
                     Seconds2Str(FloatAdd(begin.value, duration.value)))

CaptionTimes(p) == CaptionCue(Str2Seconds(p.begin), Str2Seconds(p.dur))

\* CaptionTimes of the elements of Cues, evaluated once
CUE_TIMES == [p \in Cues |-> CaptionTimes(p)]

\* The loop of lines 129-139 over ps from position pos on: the text srt
\* written so far, or the first exception
RECURSIVE CaptionLoop(_, _, _)

\* Line 139: the text of ps[pos] added to srt
CaptionAppend(ps, pos, srt, times) ==
    IF times.kind = "raise" THEN times
    ELSE CaptionLoop(ps, pos + 1,
                     srt \o CaptionText(pos - 1, times.value[1], times.value[2], ps[pos].texts))

CaptionLoop(ps, pos, srt) ==
    IF pos > Len(ps) THEN Return(srt)
    ELSE CaptionAppend(ps, pos, srt,
                       IF ps[pos] \in Cues THEN CUE_TIMES[ps[pos]] ELSE CaptionTimes(ps[pos]))

\* _download_xml is fatal: a failed download raises ExtractorError.  The
\* dictionary {lang: srt} is a function on {lang}.
ExtractCaptions(resp) ==
    IF IsNone(resp) THEN Raise("ExtractorError")
    ELSE LET lang == IF IsNone(Val(resp).lang) THEN "no" ELSE Val(Val(resp).lang)
             srt == CaptionLoop(Val(resp).ps, 1, <<>>)
         IN  IF srt.kind = "raise" THEN srt
             ELSE Return(lang :> srt.value)

NrkTvFormats(page) ==
    (IF IsNone(page.media) THEN <<>>
     ELSE <<Format(Val(page.media) \o "?hdcore=3.1.1&plugin=aasp-3.1.1.69.124",
                   "f4m", Some("flv"), None, None, None)>>)
    \o
    (IF IsNone(page.hls) THEN <<>>
     ELSE <<Format(Val(page.hls), "m3u8", None, None, None, None)>>)

\* subtitle = {}, the function on no language, when the page names no
\* subtitles, else what _extract_captions gives
NrkTvSubtitle(page, resp) ==
    IF IsNone(page.subtitlesurl) THEN Return(<<>>) ELSE ExtractCaptions(resp)

\* webpage is None when the download of the page fails, which is fatal
NrkTvRealExtract(id, webpage, resp, listsubtitles) ==
    IF IsNone(webpage) THEN Raise("ExtractorError")
    ELSE
    LET page == Val(webpage)
        subtitle == NrkTvSubtitle(page, resp)
        formats == SortFormats(NrkTvFormats(page))
    IN  IF subtitle.kind = "raise" THEN subtitle
        ELSE IF listsubtitles THEN Return(None)
        ELSE IF formats.kind = "raise" THEN formats
        ELSE Return([id |-> id,
                     title |-> page.title,
                     duration |-> FloatOrNone(page.duration),
                     formats |-> formats.value,
                     subtitles |-> subtitle.value])

NrkTvPages ==
    [ title : Opt({"20 sporsmal"}),
      duration : Opt({<<"1", "7", "4", "1", ".", "5", "2">>, <<"P", "T", "2", "9", "M">>}),
      subtitlesurl : Opt({"/programsubtitles/MUHH48000314"}),
      media : Opt({"http://nordond.nrk.no/z/manifest.f4m"}),
      hls : Opt({"http://nordond.nrk.no/i/master.m3u8"}) ]

NrkTvRequests(id, webpage) ==
    <<"http://tv.nrk.no/program/" \o id>>
    \o (IF IsNone(webpage) \/ IsNone(Val(webpage).subtitlesurl) THEN <<>>
        ELSE <<"http://tv.nrk.no" \o Val(Val(webpage).subtitlesurl)>>)

NRKTVRealExtract ==
    /\ pc = "idle"
    /\ \E page \in Opt(NrkTvPages), resp \in CaptionResponses, listsubtitles \in BOOLEAN :
         /\ (IsNone(page) \/ IsNone(Val(page).subtitlesurl)) => IsNone(resp)
         /\ inp' = [id |-> "MUHH48000314", page |-> page, captions |-> resp,
                    listsubtitles |-> listsubtitles]
         /\ out' = NrkTvRealExtract("MUHH48000314", page, resp, listsubtitles)
         /\ log' = NrkTvRequests("MUHH48000314", page)
    /\ ie' = "NRKTVIE"
    /\ pc' = "done"
    /\ loc' = <<>>
    /\ UNCHANGED sections

----------------------------------------------------------------------------
(* NRKIE._real_extract (nrk.py) *)

MaxImages == 2

RaiseExpected(e) == [kind |-> "raise", exc |-> e, expected |-> TRUE]

RaiseGeoRestricted(countries) ==
    [kind |-> "raise", exc |-> "GeoRestrictedError", expected |-> TRUE,
     countries |-> countries]

\* thumbnails.sort(key=pixelWidth); thumbnails[-1]: the last of the widest
RECURSIVE WidestLast(_)
WidestLast(images) ==
    IF Len(images) = 1 THEN images[1]
    ELSE LET w == WidestLast(SubSeq(images, 1, Len(images) - 1))
         IN  IF Last(images).pixelWidth >= w.pixelWidth THEN Last(images) ELSE w

NrkThumbnail(images) ==
    IF IsNone(images) THEN Return(None)
    ELSE IF Val(images) = <<>> THEN Raise("IndexError")
    ELSE Return(Some(WidestLast(Val(images)).imageUrl))

\* downloaded: the download of the page at line 45 succeeded, a failed one is
\* fatal; page: the data-nrk-id of the page or None; data: the media JSON or
\* None when its download fails
NrkRealExtract(downloaded, page, data) ==
    IF ~downloaded THEN Raise("ExtractorError")
    ELSE IF IsNone(page) THEN Raise("RegexNotFoundError")
    ELSE IF IsNone(data) THEN Raise("ExtractorError")
    ELSE IF Val(data).isGeoBlocked THEN RaiseExpected("ExtractorError")
    ELSE LET thumbnail == NrkThumbnail(Val(data).images)
         IN  IF thumbnail.kind = "raise" THEN thumbnail
             ELSE Return([id |-> Val(page),
                          url |-> Val(data).mediaUrl \o "?hdcore=3.1.1&plugin=aasp-3.1.1.69.124",
                          ext |-> "flv",
                          title |-> Val(data).title,
                          thumbnail |-> thumbnail.value])

NrkImages ==
    { [pixelWidth |-> 300, imageUrl |-> "small.jpg"],
      [pixelWidth |-> 600, imageUrl |-> "large.jpg"],
      [pixelWidth |-> 600, imageUrl |-> "other.jpg"] }

RECURSIVE ImageLists(_)
ImageLists(n) ==
    IF n = 0 THEN {<<>>}
    ELSE {<<>>} \cup { <<c>> \o l : c \in NrkImages, l \in ImageLists(n - 1) }

NrkMedia ==
    [ isGeoBlocked : BOOLEAN,
      mediaUrl : {"http://nordond.nrk.no/z/150533.f4m"},
      title : {"Dompap"},
      images : Opt(ImageLists(MaxImages)) ]

NRKRealExtract ==
    /\ pc = "idle"
    /\ \E downloaded \in BOOLEAN, page \in Opt({"150533"}), data \in Opt(NrkMedia) :
         /\ ~downloaded => IsNone(page)
         /\ IsNone(page) => IsNone(data)
         /\ inp' = [url |-> "http://www.nrk.no/video/dompap/D0FA54B5C8B6CE59",
                    downloaded |-> downloaded, page |-> page, data |-> data]
         /\ out' = NrkRealExtract(downloaded, page, data)
         /\ log' = <<"http://www.nrk.no/video/dompap/D0FA54B5C8B6CE59">>
                   \o (IF IsNone(page) THEN <<>>
                       ELSE <<"http://v7.psapi.nrk.no/mediaelement/" \o Val(page)>>)
    /\ ie' = "NRKIE"
    /\ pc' = "done"
    /\ loc' = <<>>
    /\ UNCHANGED sections

----------------------------------------------------------------------------
(* AppleTrailersIE._real_extract (appletrailers.py) *)

MaxTrailers == 2

\* re.sub(r'[^a-zA-Z0-9]', '', s)
RECURSIVE OnlyAlnum(_)
OnlyAlnum(s) ==
    IF s = <<>> THEN <<>>
    ELSE (IF IsLower(s[1]) \/ IsUpper(s[1]) \/ IsDigit(s[1]) THEN <<s[1]>> ELSE <<>>)
         \o OnlyAlnum(Tail(s))

\* s.rpartition(sep)[0]: what precedes the last sep, '' when there is none
RPartitionHead(s, sep) ==
    IF \A i \in 1..Len(s) : s[i] # sep THEN <<>>
    ELSE LET k == CHOOSE i \in 1..Len(s) : s[i] = sep /\ \A j \in (i + 1)..Len(s) : s[j] # sep
         IN  SubSeq(s, 1, k - 1)

\* A variant that keeps the minutes of the runtime only
AppleDurationMinutes(runtime) == Some(60 * DecVal(DigitRun(runtime)))

\* re.search(r'(?P<minutes>[0-9]+):(?P<seconds>[0-9]{1,2})', runtime) and
\* 60 * minutes + seconds: the leftmost run of digits that a colon and a
\* digit follow; None when there is none.
RECURSIVE AppleDuration(_)
AppleDuration(runtime) ==
    IF runtime = <<>> THEN None
    ELSE LET minutes == DigitRun(runtime)
             after == SubSeq(runtime, Len(minutes) + 1, Len(runtime))
         IN  IF minutes # <<>> /\ Len(after) >= 2 /\ after[1] = ":" /\ IsDigit(after[2])
             THEN LET two == Len(after) >= 3 /\ IsDigit(after[3])
                      seconds == SubSeq(after, 2, IF two THEN 3 ELSE 2)
                  IN  Some(60 * DecVal(minutes) + DecVal(seconds))
             ELSE AppleDuration(Tail(runtime))

\* The longest leading run of decimal digits (\d*)
RECURSIVE UDigitRun(_)
UDigitRun(s) == IF s = <<>> \/ ~IsUDigit(s[1]) THEN <<>>
                ELSE <<s[1]>> \o UDigitRun(Tail(s))

\* re.sub(r'_(\d*p.mov)', r'_h\1', src): an h after every underscore that
\* digits, 'p', one character that is no newline and 'mov' follow
RECURSIVE SubstituteH(_)
SubstituteH(src) ==
    IF src = <<>> THEN <<>>
    ELSE LET digits == UDigitRun(Tail(src))
             k == 1 + Len(digits)
             hit == /\ src[1] = "_"
                    /\ Len(src) >= k + 5
                    /\ src[k + 1] = "p"
                    /\ src[k + 2] # "\n"
                    /\ SubSeq(src, k + 3, k + 5) = <<"m", "o", "v">>
         IN  IF hit THEN <<"_", "h">> \o SubSeq(src, 2, k + 5)
                         \o SubstituteH(SubSeq(src, k + 6, Len(src)))
             ELSE <<src[1]>> \o SubstituteH(Tail(src))

\* construct_direct_download_url: '_h'.join(first_url.split('_'))
ConstructDirectDownloadUrl(first_url) == Join(Split(first_url, "_"), <<"_", "h">>)

\* first_url.split('/')[-1].rpartition('_')[0].lower()
AppleTrailerId(first_url) == Lower(RPartitionHead(Last(Split(first_url, "/")), "_"))

AppleFormat(url, format, width, height) ==
    [url |-> url, format |-> format, width |-> width, height |-> height,
     ext |-> None, tbr |-> None, format_id |-> None]

\* A variant without the except clause: the failed download ends the call
AppleFallbackAborts(info) == Raise("ExtractorError")

\* Lines 143-156: the one format of the fallback path
AppleFallbackFormats(info) ==
    IF IsNone(info.width) \/ IsNone(info.height) THEN Raise("KeyError")
    ELSE Return(<<AppleFormat(ConstructDirectDownloadUrl(Val(info.url)),
                              Last(Split(Val(info.url), ".")),
                              info.width, info.height)>>)

RECURSIVE AppleSizeFormats(_)
AppleSizeFormats(sizes) ==
    IF sizes = <<>> THEN <<>>
    ELSE <<AppleFormat(SubstituteH(sizes[1].src), sizes[1].type,
                       Some(sizes[1].width), Some(sizes[1].height))>>
         \o AppleSizeFormats(Tail(sizes))

\* The same formats left in the order of the settings file
AppleSettingsFormatsUnsorted(settings) ==
    IF "sizes" \notin DOMAIN settings THEN Raise("KeyError")
    ELSE Return(AppleSizeFormats(settings.sizes))

\* Lines 160-169: the formats of the settings file, sorted; a file without
\* 'metadata' or without its 'sizes' raises KeyError at line 160
AppleSettingsFormats(settings) ==
    IF "sizes" \notin DOMAIN settings THEN Raise("KeyError")
    ELSE SortFormats(AppleSizeFormats(settings.sizes))

\* How the <li> is written: with all its parts, without an <a>, with an <a>
\* that has no onClick, with an onClick in which _JSON_RE is not found, with
\* an argument of iTunes.playURL that is no JSON, without an <img>, and with
\* an <img> that has no src
LI_FORMS == {"li", "no a", "no onClick", "no playURL", "no JSON", "no img", "no src"}

\* Lines 112-115: the exception of an <li> whose trailer info cannot be read
AppleInfoError(info) ==
    CASE info.li = "no a" -> Raise("AttributeError")
      [] info.li = "no onClick" -> Raise("KeyError")
      [] info.li = "no playURL" -> Raise("RegexNotFoundError")
      [] info.li = "no JSON" -> Raise("JSONDecodeError")
      [] OTHER -> Return(info)

APPLE_POSTER == "http://trailers.apple.com/trailers/wb/manofsteel/images/thumbnail.jpg"

\* Line 121, li.find('.//img').attrib['src']
AppleThumbnail(info) ==
    IF info.li = "no img" THEN Raise("AttributeError")
    ELSE IF info.li = "no src" THEN Raise("KeyError")
    ELSE Return(APPLE_POSTER)

\* Lines 119-124: the keys of the trailer info and the thumbnail, read in
\* the order of the lines
AppleFields(info) ==
    IF IsNone(info.title) THEN Raise("KeyError")
    ELSE IF AppleThumbnail(info).kind = "raise" THEN AppleThumbnail(info)
    ELSE IF IsNone(info.posted) \/ IsNone(info.runtime) THEN Raise("KeyError")
    ELSE Return(info)

\* Lines 135-183, for the formats of the trailer
AppleRecord(movie, uploader_id, info, formats) ==
    IF formats.kind = "raise" THEN formats
    ELSE Return([id |-> movie \o <<"-">> \o Lower(OnlyAlnum(Val(info.title))),
                 formats |-> formats.value,
                 title |-> Val(info.title),
                 duration |-> AppleDuration(Val(info.runtime)),
                 thumbnail |-> APPLE_POSTER,
                 upload_date |-> Without(Val(info.posted), "-"),
                 uploader_id |-> uploader_id])

\* Lines 119-183 for one <li> whose trailer info has a url: the playlist
\* entry, or the exception that ends the call.  settings is None when the
\* download of the settings file raised ExtractorError.
AppleEntry(movie, uploader_id, info, settings) ==
    IF AppleFields(info).kind = "raise" THEN AppleFields(info)
    ELSE AppleRecord(movie, uploader_id, info,
                     IF IsNone(settings) THEN AppleFallbackFormats(info)
                     ELSE AppleSettingsFormats(Val(settings)))

\* Lines 116-118, 'if not first_url': the url is missing, null or ''
AppleHasUrl(info) == ~IsNone(info.url) /\ Val(info.url) # <<>>

\* The trailer infos of a page
URL_TEASER == <<"/", "m", "/", "t", "_", "4", "8", "0", "p", ".", "m", "o", "v">>

URL_TRAILER == <<"/", "m", "/", "A", "_", "b", "_", "7", "2", "0", "p", ".", "m", "o", "v">>

\* A file name with a capital E acute, a capital sigma at the end of a word
\* and a capital I with a dot above, which lower() turns into two characters
URL_ACCENTS ==
    <<"/", "m", "/", "U+00C9", "T", "U+03A3", "-", "U+0130", "_", "7", "2", "0", "p",
      ".", "m", "o", "v">>

AppleInfo(url, title, posted, runtime, width, height) ==
    [url |-> url, title |-> title, posted |-> posted, runtime |-> runtime,
     width |-> width, height |-> height, li |-> "li"]

\* The trailer info in an <li> written in another form
InForm(info, form) == [info EXCEPT !.li = form]

APPLE_TEASER ==
    AppleInfo(Some(URL_TEASER), Some(<<"T", "e", "a", "s", "e", "r">>),
              Some(<<"2", "0", "1", "3", "-", "0", "6", "-", "1", "0">>),
              Some(<<"2", ":", "3", "1">>), Some(848), Some(480))

AppleInfos ==
    { AppleInfo(Some(URL_TEASER), Some(<<"T", "e", "a", "s", "e", "r">>), Some(<<"2", "0", "1", "3", "-", "0", "6", "-", "1", "0">>),
                Some(<<"2", ":", "3", "1">>), Some(848), Some(480)),
      AppleInfo(Some(URL_TRAILER), Some(<<"T", "r", "a", "i", "l", "e", "r", " ", "2">>), Some(<<"2", "0", "1", "3", "-", "0", "7", "-", "0", "1">>),
                Some(<<"1", ":", "0", "5", " ", "m", "i", "n">>), Some(1280), Some(720)),
      AppleInfo(None, Some(<<"C", "l", "i", "p">>), None, None, None, None),
      AppleInfo(Some(<<>>), Some(<<"C", "l", "i", "p">>), Some(<<"2", "0", "1", "3", "-", "0", "6", "-", "1", "0">>),
                Some(<<"2", ":", "3", "1">>), Some(848), Some(480)),
      AppleInfo(Some(URL_TEASER), Some(<<"T", "e", "a", "s", "e", "r">>), Some(<<"2", "0", "1", "3", "-", "0", "6", "-", "1", "0">>),
                Some(<<"n", "/", "a">>), None, None),
      AppleInfo(Some(URL_ACCENTS), Some(<<"C", "l", "i", "p">>), Some(<<"2", "0", "1", "3", "-", "0", "6", "-", "1", "0">>),
                Some(<<"0", ":", "4", "5">>), Some(1280), Some(720)),
      InForm(AppleInfo(None, None, None, None, None, None), "no img") }
    \cup { InForm(APPLE_TEASER, form) : form \in LI_FORMS \ {"li"} }

RECURSIVE AppleDocs(_)
AppleDocs(n) ==
    IF n = 0 THEN {<<>>}
    ELSE {<<>>} \cup { <<t>> \o l : t \in AppleInfos, l \in AppleDocs(n - 1) }

SIZE_SD == [src |-> <<"/", "m", "/", "t", "_", "4", "8", "0", "p", ".", "m", "o", "v">>, type |-> "video/quicktime", width |-> 848, height |-> 480]

SIZE_HD == [src |-> <<"/", "m", "/", "t", "_", "7", "2", "0", "p", ".", "m", "o", "v">>, type |-> "video/quicktime", width |-> 1280, height |-> 720]

\* What the download of a settings file gives: None when it fails
\* A settings file without the key 'metadata'
NO_METADATA == [page |-> "{}"]

AppleSettings ==
    Opt({ [sizes |-> <<>>], [sizes |-> <<SIZE_SD>>],
          [sizes |-> <<SIZE_SD, SIZE_HD>>], [sizes |-> <<SIZE_HD, SIZE_SD>>],
          NO_METADATA })

AppleMovie == <<"m", "a", "n", "o", "f", "s", "t", "e", "e", "l">>

\* Lines 90-110: the playlist page is fetched and the loop starts
AppleStart ==
    /\ pc = "idle"
    /\ \E doc \in Opt(AppleDocs(MaxTrailers)) :
         /\ inp' = [movie |-> AppleMovie, company |-> "wb", doc |-> doc]
         /\ IF IsNone(doc)
            THEN pc' = "done" /\ out' = Raise("ExtractorError")
            ELSE pc' = "apple_li" /\ out' = out
    /\ ie' = "AppleTrailersIE"
    /\ loc' = [i |-> 1, playlist |-> <<>>]
    /\ log' = <<"includes/playlists/itunes.inc">>
    /\ UNCHANGED sections

\* Lines 111-115: an <li> whose trailer info cannot be read ends the call
AppleUnreadable ==
    /\ ie = "AppleTrailersIE"
    /\ pc = "apple_li"
    /\ loc.i <= Len(Val(inp.doc))
    /\ AppleInfoError(Val(inp.doc)[loc.i]).kind = "raise"
    /\ pc' = "done"
    /\ out' = AppleInfoError(Val(inp.doc)[loc.i])
    /\ UNCHANGED <<ie, inp, loc, log>>
    /\ UNCHANGED sections

\* Lines 111-118: an <li> without a url is passed over
AppleSkip ==
    /\ ie = "AppleTrailersIE"
    /\ pc = "apple_li"
    /\ loc.i <= Len(Val(inp.doc))
    /\ AppleInfoError(Val(inp.doc)[loc.i]).kind = "return"
    /\ ~AppleHasUrl(Val(inp.doc)[loc.i])
    /\ loc' = [loc EXCEPT !.i = @ + 1]
    /\ UNCHANGED <<ie, pc, inp, out, log>>
    /\ UNCHANGED sections

\* Lines 111-183: one <li> with a url, its settings file fetched
AppleTrailer ==
    /\ ie = "AppleTrailersIE"
    /\ pc = "apple_li"
    /\ loc.i <= Len(Val(inp.doc))
    /\ AppleInfoError(Val(inp.doc)[loc.i]).kind = "return"
    /\ AppleHasUrl(Val(inp.doc)[loc.i])
    /\ \E settings \in AppleSettings :
         LET info == Val(inp.doc)[loc.i]
             entry == AppleEntry(inp.movie, inp.company, info, settings)
         IN  /\ AppleFields(info).kind = "raise" => IsNone(settings)
             /\ log' = IF AppleFields(info).kind = "raise"
                        THEN log
                        ELSE Append(log, [li |-> loc.i,
                                          settings |-> AppleTrailerId(Val(info.url)),
                                          response |-> settings])
             /\ IF entry.kind = "raise"
                THEN pc' = "done" /\ out' = entry /\ loc' = loc
                ELSE /\ pc' = pc
                     /\ out' = out
                     /\ loc' = [i |-> loc.i + 1, playlist |-> Append(loc.playlist, entry.value)]
    /\ UNCHANGED <<ie, inp>>
    /\ UNCHANGED sections

\* Lines 185-189: the playlist is returned
AppleReturn ==
    /\ ie = "AppleTrailersIE"
    /\ pc = "apple_li"
    /\ loc.i > Len(Val(inp.doc))
    /\ pc' = "done"
    /\ out' = Return([id |-> inp.movie, entries |-> loc.playlist])
    /\ UNCHANGED <<ie, inp, loc, log>>
    /\ UNCHANGED sections

----------------------------------------------------------------------------
(* AppleTrailersSectionIE (appletrailers.py) *)

MaxFeed == 2

\* _SECTIONS, in the order it is written
SECTIONS ==
    << [key |-> <<"j", "u", "s", "t", "a", "d", "d", "e", "d">>,
        feed_path |-> "just_added", title |-> "Just Added"],
       [key |-> <<"e", "x", "c", "l", "u", "s", "i", "v", "e">>,
        feed_path |-> "exclusive", title |-> "Exclusive"],
       [key |-> <<"j", "u", "s", "t", "h", "d">>,
        feed_path |-> "just_hd", title |-> "Just HD"],
       [key |-> <<"m", "o", "s", "t", "p", "o", "p", "u", "l", "a", "r">>,
        feed_path |-> "most_pop", title |-> "Most Popular"],
       [key |-> <<"m", "o", "v", "i", "e", "s", "t", "u", "d", "i", "o", "s">>,
        feed_path |-> "studios", title |-> "Movie Studios"] >>

\* self._SECTIONS[section]
SectionLookup(table, section) ==
    IF \E i \in 1..Len(table) : table[i].key = section
    THEN Return(table[CHOOSE i \in 1..Len(table) : table[i].key = section])
    ELSE Raise("KeyError")

\* A URL is <<scheme, "://", host, "/#section=">> followed by the characters
\* of the rest.  _VALID_URL: the alternatives '|'.join(_SECTIONS) are tried in
\* the order of the table at the start of the rest, and the first that the rest
\* starts with is the group 'id'.
SectionRest(url) == SubSeq(url, 5, Len(url))

StartsWith(s, prefix) == Len(s) >= Len(prefix) /\ SubSeq(s, 1, Len(prefix)) = prefix

SectionHead(url) ==
    /\ Len(url) >= 4
    /\ url[1] \in {"http", "https"}
    /\ url[2] = "://"
    /\ url[3] \in {"trailers.apple.com", "www.trailers.apple.com"}
    /\ url[4] = "/#section="

SectionSuitable(table, url) ==
    SectionHead(url) /\ \E i \in 1..Len(table) : StartsWith(SectionRest(url), table[i].key)

\* A variant whose group 'id' is all that follows '#section='
SectionMatchRest(table, url) == SectionRest(url)

SectionMatchId(table, url) ==
    LET first == CHOOSE i \in 1..Len(table) :
                     /\ StartsWith(SectionRest(url), table[i].key)
                     /\ \A j \in 1..(i - 1) : ~StartsWith(SectionRest(url), table[j].key)
    IN  table[first].key

FEED_PREFIX == "http://trailers.apple.com/trailers/home/feeds/"

SITE_PREFIX == "http://trailers.apple.com"

\* self.url_result(url)
UrlResult(url) == [type |-> "url", url |-> url]

\* Lines 259-261: e['location'] of an element without one is a KeyError
RECURSIVE SectionEntries(_)
SectionEntries(section_data) ==
    IF section_data = <<>> THEN Return(<<>>)
    ELSE IF IsNone(section_data[1].location) THEN Raise("KeyError")
    ELSE LET rest == SectionEntries(Tail(section_data))
         IN  IF rest.kind = "raise" THEN rest
             ELSE Return(<<UrlResult(SITE_PREFIX \o Val(section_data[1].location))>>
                         \o rest.value)

\* Lines 254-262.  feed is what the download gives, None when it fails.
SectionRealExtract(table, url, feed) ==
    LET section == SectionMatchId(table, url)
        path == SectionLookup(table, section)
    IN  IF path.kind = "raise" THEN path
        ELSE IF IsNone(feed) THEN Raise("ExtractorError")
        ELSE LET entries == SectionEntries(Val(feed))
                 title == SectionLookup(table, section)
             IN  IF entries.kind = "raise" THEN entries
                 ELSE Return([type |-> "playlist", id |-> section,
                              title |-> title.value.title, entries |-> entries.value])

SectionRequests(table, url) ==
    LET path == SectionLookup(table, SectionMatchId(table, url))
    IN  IF path.kind = "raise" THEN <<>>
        ELSE <<FEED_PREFIX \o path.value.feed_path \o ".json">>

SectionUrls ==
    { <<"http", "://", "trailers.apple.com", "/#section=">> \o SECTIONS[i].key : i \in 1..Len(SECTIONS) }
    \cup { <<"https", "://", "www.trailers.apple.com", "/#section=">> \o <<"j", "u", "s", "t", "h", "d">> \o <<"&", "x">>,
           <<"http", "://", "trailers.apple.com", "/#section=">> \o <<"j", "u", "s", "t">>,
           <<"http", "://", "trailers.apple.com", "/#section=">> \o <<"t", "o", "p", "r", "a", "t", "e", "d">>,
           <<"http", "://", "trailers.apple.com", "/#section=">> }

FeedElements == [location : Opt({"/trailers/wb/manofsteel/", "/trailers/fox/rio2/"})]

RECURSIVE Feeds(_)
Feeds(n) ==
    IF n = 0 THEN {<<>>}
    ELSE {<<>>} \cup { <<e>> \o l : e \in FeedElements, l \in Feeds(n - 1) }

AppleTrailersSectionRealExtract ==
    /\ pc = "idle"
    /\ \E url \in SectionUrls, feed \in Opt(Feeds(MaxFeed)) :
         /\ SectionSuitable(sections, url)
         /\ inp' = [url |-> url, feed |-> feed]
         /\ out' = SectionRealExtract(sections, url, feed)
         /\ log' = SectionRequests(sections, url)
    /\ ie' = "AppleTrailersSectionIE"
    /\ pc' = "done"
    /\ loc' = <<>>
    /\ UNCHANGED sections

----------------------------------------------------------------------------
(* RaiBaseIE._extract_relinker_info (rai.py) *)

GEO_COUNTRIES == {"IT"}

PLATFORMS == <<"mon", "flash", "native">>

\* A media URL is a sequence of tokens: a base, path segments, '.', an
\* extension and, after '?', a query.
\* determine_ext(url): the token after the last '.' of what precedes '?'
UrlPath(url) ==
    IF \A i \in 1..Len(url) : url[i] # "?" THEN url
    ELSE SubSeq(url, 1, (CHOOSE i \in 1..Len(url) :
                            url[i] = "?" /\ \A j \in 1..(i - 1) : url[j] # "?") - 1)

DetermineExt(url) ==
    LET path == UrlPath(url)
    IN  IF Len(path) >= 2 /\ path[Len(path) - 1] = "." THEN Some(Last(path)) ELSE None

\* The text of a URL: its tokens one after the other
RECURSIVE UrlText(_)
UrlText(url) == IF url = <<>> THEN "" ELSE url[1] \o UrlText(Tail(url))

\* sub in url: sub occurs somewhere in the text of url
Contains(url, sub) ==
    LET text == UrlText(url)
    IN  \E i \in 1..(Len(text) - Len(sub) + 1) : SubSeq(text, i, i + Len(sub) - 1) = sub

\* Python's truth of None, False and True
Truthy(o) == o = Some(TRUE)

\* parse_duration of the text of <duration>: 'H:M:S' in seconds
ParseDuration(text) ==
    IF IsNone(text) THEN None
    ELSE LET f == Split(Val(text), ":")
         IN  IF Len(f) = 3 /\ \A i \in 1..3 : (f[i] # <<>> /\ AllDigits(f[i]))
             THEN Some(DecVal(f[1]) * 3600 + DecVal(f[2]) * 60 + DecVal(f[3]))
             ELSE None

\* Lines 91-96: the format of a plain URL.  bitrate is None when the response
\* has no <bitrate>, and `bitrate > 0' of None raises TypeError.
HttpFormat(media_url, bitrate) ==
    IF IsNone(bitrate) THEN Raise("TypeError")
    ELSE Return(<<Format(media_url,
                         IF Val(bitrate) > 0 THEN <<"http", Val(bitrate)>> ELSE <<"http">>,
                         None, None, None,
                         IF Val(bitrate) > 0 THEN bitrate ELSE None)>>)

\* Lines 69-96: the formats that the media URL of a response adds.  r.hls and
\* r.hds are what _extract_m3u8_formats and _extract_f4m_formats
\* (fatal=False) find at the media URL.
MediaFormats(platform, r, media_url, ext) ==
    IF Contains(media_url, "/video_no_available.mp4") THEN Return(<<>>)
    ELSE IF (ext = Some("m3u8") /\ platform # "mon") \/ (ext = Some("f4m") /\ platform # "flash")
    THEN Return(<<>>)
    ELSE IF ext = Some("m3u8") \/ Contains(media_url, "format=m3u8") \/ platform = "mon"
    THEN Return(r.hls)
    ELSE IF ext = Some("f4m") \/ platform = "flash"
    THEN Return(r.hds)
    ELSE HttpFormat(media_url, r.bitrate)

\* Lines 65-96: the formats one response adds, or the exception that ends
\* the call.  r.url is None for a response without a url element of type
\* 'content', and Some(<<>>) for a url element without a text: its text is
\* None, and `in' of None at line 72 raises TypeError.
RelinkerFormats(platform, r) ==
    IF IsNone(r.url) THEN Return(<<>>)
    ELSE IF Val(r.url) = <<>> THEN Raise("TypeError")
    ELSE MediaFormats(platform, r, Val(r.url), DetermineExt(Val(r.url)))

\* A variant of lines 54-56 in which a later response overwrites the flag
RelinkerGeoOverwritten(l, r) == Some(r.geoprotection = Some("Y"))

\* Lines 54-56
RelinkerGeo(l, r) ==
    IF ~Truthy(l.geoprotection) THEN Some(r.geoprotection = Some("Y")) ELSE l.geoprotection

\* Lines 58-60
RelinkerLive(l, r) ==
    IF ~Truthy(l.is_live) THEN Some(r.is_live = Some("Y")) ELSE l.is_live

\* A variant of lines 61-63 in which every response sets the duration
RelinkerDurationOverwritten(l, r) == ParseDuration(r.duration)

\* Lines 61-63
RelinkerDuration(l, r) ==
    IF IsNone(l.duration) \/ l.duration = Some(0) THEN ParseDuration(r.duration)
    ELSE l.duration

RelinkerLocals == [formats |-> <<>>, geoprotection |-> None, is_live |-> None, duration |-> None]

\* Lines 54-63: the locals after the flags of response r are read
RelinkerLatched(l, r) ==
    [formats |-> l.formats,
     geoprotection |-> RelinkerGeo(l, r),
     is_live |-> RelinkerLive(l, r),
     duration |-> RelinkerDuration(l, r)]

\* Lines 65-96, for what RelinkerFormats gave
RelinkerExtended(l, formats) ==
    IF formats.kind = "raise" THEN formats
    ELSE Return([l EXCEPT !.formats = @ \o formats.value])

\* One turn of the loop of lines 46-96: the locals after it, or the exception
\* that ends the call.  resp is None when the download fails: _download_xml
\* is called without fatal=False and raises ExtractorError.
RelinkerStep(l, platform, resp) ==
    IF IsNone(resp) THEN Raise("ExtractorError")
    ELSE RelinkerExtended(RelinkerLatched(l, Val(resp)), RelinkerFormats(platform, Val(resp)))

\* Lines 98-105; a None value is a key the result does not have
RelinkerResult(l) ==
    IF l.formats = <<>> /\ l.geoprotection = Some(TRUE) THEN RaiseGeoRestricted(GEO_COUNTRIES)
    ELSE Return([is_live |-> l.is_live, duration |-> l.duration, formats |-> l.formats])

\* Lines 38-39
IsHttp(relinker_url) == relinker_url[1] \in {"http://", "https://"}

DirectResult(relinker_url) ==
    Return([is_live |-> None, duration |-> None,
            formats |-> <<Format(relinker_url, None, None, None, None, None)>>])

\* A variant that stops at the first platform that gave a format
RelinkerMoreUntilFormats(l, n) == n < Len(PLATFORMS) /\ l.formats = <<>>

\* Line 46: the loop goes on while a platform is left, after n requests
RelinkerMore(l, n) == n < Len(PLATFORMS)

\* Lines 46-105 after n requests, for the responses rs of the platforms
RECURSIVE RelinkerLoop(_, _, _)

RelinkerNext(step, n, rs) ==
    IF step.kind = "raise" THEN step ELSE RelinkerLoop(step.value, n + 1, rs)

RelinkerLoop(l, n, rs) ==
    IF RelinkerMore(l, n) THEN RelinkerNext(RelinkerStep(l, PLATFORMS[n + 1], rs[n + 1]), n, rs)
    ELSE RelinkerResult(l)

\* The whole function, for the three responses rs
ExtractRelinkerInfo(relinker_url, rs) ==
    IF ~IsHttp(relinker_url) THEN DirectResult(relinker_url)
    ELSE RelinkerLoop(RelinkerLocals, 0, rs)

\* The platforms that are requested from the nth on: a request that raises
\* is the last one
RECURSIVE RelinkerRequestsFrom(_, _, _)

RelinkerRequestsNext(step, n, rs) ==
    IF step.kind = "raise" THEN <<>> ELSE RelinkerRequestsFrom(step.value, n + 1, rs)

RelinkerRequestsFrom(l, n, rs) ==
    IF RelinkerMore(l, n)
    THEN <<PLATFORMS[n + 1]>>
         \o RelinkerRequestsNext(RelinkerStep(l, PLATFORMS[n + 1], rs[n + 1]), n, rs)
    ELSE <<>>

RelinkerRequests(relinker_url, rs) ==
    IF ~IsHttp(relinker_url) THEN <<>> ELSE RelinkerRequestsFrom(RelinkerLocals, 0, rs)

\* The inputs
RELINKER_HTTP == <<"http://", "mediapolis.rai.it/relinker/relinkerServlet.htm", "?", "cont=abc">>

RELINKER_MMS == <<"mms://", "mms.rai.it/tg1", ".", "wmv">>

HLS_FORMATS ==
    << Format(<<"http://", "cdn/hi", ".", "m3u8">>, <<"hls", 1800>>, Some("mp4"),
              Some(1280), Some(720), Some(1800)),
       Format(<<"http://", "cdn/lo", ".", "m3u8">>, <<"hls", 700>>, Some("mp4"),
              Some(640), Some(360), Some(700)) >>

HDS_FORMATS ==
    << Format(<<"http://", "cdn/hds", ".", "f4m">>, <<"hds", 900>>, Some("flv"),
              Some(1024), Some(576), Some(900)) >>

Media(url, hls, hds, bitrate) == [url |-> url, hls |-> hls, hds |-> hds, bitrate |-> bitrate]

\* bitrate is the number of <bitrate>, None for a response without it
RelinkerMedia ==
    { Media(None, <<>>, <<>>, None),
      Media(Some(<<>>), <<>>, <<>>, None),
      Media(Some(<<"http://", "cdn/video_no_available", ".", "mp4">>), <<>>, <<>>, Some(0)),
      Media(Some(<<"http://", "cdn/master", ".", "m3u8">>), HLS_FORMATS, <<>>, None),
      Media(Some(<<"http://", "cdn/broken", ".", "m3u8">>), <<>>, <<>>, Some(0)),
      Media(Some(<<"http://", "cdn/manifest", ".", "f4m">>), <<>>, HDS_FORMATS, Some(0)),
      Media(Some(<<"http://", "cdn/video", ".", "mp4">>), <<>>, <<>>, Some(1200)),
      Media(Some(<<"http://", "cdn/audio", ".", "mp3">>), <<>>, <<>>, Some(0)),
      Media(Some(<<"http://", "cdn/clip", ".", "mp4">>), <<>>, <<>>, None),
      Media(Some(<<"http://", "cdn/video", ".", "mp4", "?", "a=1&format=m3u8">>),
            SubSeq(HLS_FORMATS, 2, 2), <<>>, Some(0)) }

DURATION_90 == <<"0", "0", ":", "0", "1", ":", "3", "0">>

DURATION_45 == <<"0", "0", ":", "0", "0", ":", "4", "5">>

DURATION_0 == <<"0", "0", ":", "0", "0", ":", "0", "0">>

RelinkerFlags ==
    [ geoprotection : Opt({"Y", "N"}),
      is_live : Opt({"Y", "N"}),
      duration : Opt({DURATION_90, DURATION_45, DURATION_0}) ]

Response(flags, media) ==
    [geoprotection |-> flags.geoprotection, is_live |-> flags.is_live,
     duration |-> flags.duration,
     url |-> media.url, hls |-> media.hls, hds |-> media.hds, bitrate |-> media.bitrate]

RelinkerResponses == { Response(f, m) : f \in RelinkerFlags, m \in RelinkerMedia }

\* What a download gives: None when it fails, else the response
RelinkerDownloads == Opt(RelinkerResponses)

\* What the downloads so far gave, kept beside the call: the flags and the
\* durations of the responses, whether a response added a format, and
\* whether the last turn of the loop ended in an exception
NothingSeen ==
    [geoY |-> FALSE, liveY |-> FALSE, anyFormat |-> FALSE, durations |-> <<>>, raised |-> FALSE]

SeenResponse(seen, r, formats) ==
    [geoY |-> seen.geoY \/ r.geoprotection = Some("Y"),
     liveY |-> seen.liveY \/ r.is_live = Some("Y"),
     anyFormat |-> seen.anyFormat \/ (formats.kind = "return" /\ formats.value # <<>>),
     durations |-> Append(seen.durations, r.duration),
     raised |-> formats.kind = "raise"]

Seen(seen, platform, resp) ==
    IF IsNone(resp) THEN [seen EXCEPT !.raised = TRUE]
    ELSE SeenResponse(seen, Val(resp), RelinkerFormats(platform, Val(resp)))

\* Lines 37-44
RelinkerStart ==
    /\ pc = "idle"
    /\ \E relinker_url \in {RELINKER_HTTP, RELINKER_MMS} :
         /\ inp' = [relinker_url |-> relinker_url, seen |-> NothingSeen]
         /\ IF IsHttp(relinker_url)
            THEN pc' = "relinker_loop" /\ out' = out
            ELSE pc' = "done" /\ out' = DirectResult(relinker_url)
    /\ ie' = "RaiBaseIE._extract_relinker_info"
    /\ loc' = RelinkerLocals
    /\ log' = <<>>
    /\ UNCHANGED sections

\* The locals and the outcome after a turn of the loop: an exception leaves
\* the function, with the flags of the response already read
RelinkerTurn(l, resp, step) ==
    /\ loc' = IF step.kind = "return" THEN step.value
              ELSE IF IsNone(resp) THEN l
              ELSE RelinkerLatched(l, Val(resp))
    /\ pc' = IF step.kind = "return" THEN pc ELSE "done"
    /\ out' = IF step.kind = "return" THEN out ELSE step

\* Lines 46-96: the request for the next platform and what its response adds
RelinkerQuery ==
    /\ ie = "RaiBaseIE._extract_relinker_info"
    /\ pc = "relinker_loop"
    /\ RelinkerMore(loc, Len(log))
    /\ \E resp \in RelinkerDownloads :
         /\ RelinkerTurn(loc, resp, RelinkerStep(loc, PLATFORMS[Len(log) + 1], resp))
         /\ inp' = [inp EXCEPT !.seen = Seen(@, PLATFORMS[Len(log) + 1], resp)]
         /\ log' = Append(log, PLATFORMS[Len(log) + 1])
    /\ UNCHANGED ie
    /\ UNCHANGED sections

\* Lines 98-105
RelinkerReturn ==
    /\ ie = "RaiBaseIE._extract_relinker_info"
    /\ pc = "relinker_loop"
    /\ ~RelinkerMore(loc, Len(log))
    /\ pc' = "done"
    /\ out' = RelinkerResult(loc)
    /\ UNCHANGED <<ie, inp, loc, log>>
    /\ UNCHANGED sections

----------------------------------------------------------------------------
(* RaiBaseIE._extract_subtitles (rai.py) *)

MaxSubtitles == 2

STL_EXT == <<"s", "t", "l">>

SRT_EXT == <<"s", "r", "t">>

\* A URL is a sequence of characters, which an origin (scheme and host, one
\* element) may precede.  A value of the JSON is absent or null ("none"), a
\* string ("str") or something else, such as a number ("other").
ORIGINS == {"http://www.rai.it", "http://cdn.rai.it", "https://www.raiplayradio.it"}

NoValue == [t |-> "none"]

Str(s) == [t |-> "str", s |-> s]

OtherValue == [t |-> "other"]

\* The directory of a URL: what precedes the file name, the last '/' of what
\* precedes '?' included
UrlDirectory(url) ==
    LET path == UrlPath(url)
    IN  IF \A i \in 2..Len(path) : path[i] # "/" THEN <<url[1], "/">>
        ELSE SubSeq(path, 1, CHOOSE i \in 2..Len(path) :
                                 path[i] = "/" /\ \A j \in (i + 1)..Len(path) : path[j] # "/")

\* urljoin(url, sub_url) for a sub_url that is not empty: an absolute URL and
\* one that starts with '//' are kept, a path that starts at the root is put
\* after the origin of the page, and another path after the directory of the
\* page ('.' and '..' segments are left out)
UrlJoin(url, sub_url) ==
    IF sub_url[1] \in ORIGINS \cup {"http://", "https://"} THEN sub_url
    ELSE IF Len(sub_url) >= 2 /\ sub_url[1] = "/" /\ sub_url[2] = "/" THEN sub_url
    ELSE IF sub_url[1] = "/" THEN <<url[1]>> \o sub_url
    ELSE UrlDirectory(url) \o sub_url

\* urljoin(url, path) for every string: None for ''
UrlJoinOrNone(url, path) == IF path = <<>> THEN None ELSE Some(UrlJoin(url, path))

\* determine_ext(url, default_ext): the text after the last '.' of what
\* precedes '?', when it is made of letters and digits; default_ext otherwise
\* (also when the last '.' is that of the host, a '/' following it)
DetermineExtOr(url, default_ext) ==
    LET path == UrlPath(url)
        dots == { i \in 1..Len(path) : path[i] = "." }
    IN  IF dots = {} THEN default_ext
        ELSE LET last == CHOOSE i \in dots : \A j \in dots : j <= i
                 guess == SubSeq(path, last + 1, Len(path))
             IN  IF guess # <<>> /\ OnlyAlnum(guess) = guess THEN guess ELSE default_ext

\* Line 128: sub_url[:-len(STL_EXT)] + SRT_EXT
SrtUrl(sub_url) == SubSeq(sub_url, 1, Len(sub_url) - Len(STL_EXT)) \o SRT_EXT

\* Lines 116-129 for one descriptor: the entries it adds under its language
SubtitleEntries(url, subtitle) ==
    IF subtitle.url.t = "str" /\ subtitle.url.s # <<>>
    THEN LET sub_url == UrlJoin(url, subtitle.url.s)
             sub_ext == DetermineExtOr(sub_url, SRT_EXT)
         IN  <<[ext |-> sub_ext, url |-> sub_url]>>
             \o (IF STL_EXT = sub_ext THEN <<[ext |-> SRT_EXT, url |-> SrtUrl(sub_url)]>>
                 ELSE <<>>)
    ELSE <<>>

\* subtitle.get('language') or 'it'
SubtitleLang(subtitle) ==
    IF IsNone(subtitle.language) \/ Val(subtitle.language) = "" THEN "it"
    ELSE Val(subtitle.language)

\* subtitles.setdefault(sub_lang, []).append(...): a dictionary is a function
\* on the languages it has
AddSubtitle(url, subtitle, subtitles) ==
    IF SubtitleEntries(url, subtitle) = <<>> THEN subtitles
    ELSE LET sub_lang == SubtitleLang(subtitle)
             old == IF sub_lang \in DOMAIN subtitles THEN subtitles[sub_lang] ELSE <<>>
         IN  (sub_lang :> (old \o SubtitleEntries(url, subtitle))) @@ subtitles

RECURSIVE SubtitlesOf(_, _, _)
SubtitlesOf(url, subtitles_array, subtitles) ==
    IF subtitles_array = <<>> THEN subtitles
    ELSE SubtitlesOf(url, Tail(subtitles_array), AddSubtitle(url, subtitles_array[1], subtitles))

Descriptor(url, language) == [url |-> url, language |-> language]

\* Lines 112-114: the list the loop reads.  video_data.get('subtitlesArray')
\* or []: a list that is not empty is the list of video_data itself, and the
\* two descriptors are appended to it.
SubtitlesArray(video_data) ==
    (IF IsNone(video_data.subtitlesArray) THEN <<>> ELSE Val(video_data.subtitlesArray))
    \o <<Descriptor(video_data.subtitles, None), Descriptor(video_data.subtitlesUrl, None)>>

\* video_data as the call leaves it
VideoDataAfter(video_data) ==
    IF IsNone(video_data.subtitlesArray) \/ Val(video_data.subtitlesArray) = <<>>
    THEN video_data
    ELSE [video_data EXCEPT !.subtitlesArray = Some(SubtitlesArray(video_data))]

\* Lines 108-130: the dictionary returned
ExtractSubtitles(url, video_data) == SubtitlesOf(url, SubtitlesArray(video_data), <<>>)

\* The inputs
PAGE_URL == <<"http://www.rai.it", "/", "d", "l", "/", "x", ".", "h", "t", "m", "l">>

SUB_STL == <<"/", "s", "u", "b", "/", "a", ".", "s", "t", "l">>

SUB_SRT == <<"http://cdn.rai.it", "/", "b", ".", "s", "r", "t">>

SUB_STL_QUERY == <<"/", "c", ".", "s", "t", "l", "?", "v", "=", "2">>

SUB_PLAIN == <<"/", "s", "u", "b", "/", "d">>

SubtitleUrls ==
    { NoValue, OtherValue, Str(<<>>), Str(SUB_STL), Str(SUB_SRT), Str(SUB_STL_QUERY),
      Str(SUB_PLAIN) }

Descriptors == { Descriptor(u, l) : u \in SubtitleUrls, l \in Opt({"en"}) }

RECURSIVE DescriptorLists(_)
DescriptorLists(n) ==
    IF n = 0 THEN {<<>>}
    ELSE {<<>>} \cup { <<d>> \o l : d \in Descriptors, l \in DescriptorLists(n - 1) }

VideoData ==
    [ subtitlesArray : Opt(DescriptorLists(MaxSubtitles)),
      subtitles : {NoValue, Str(SUB_STL)},
      subtitlesUrl : {NoValue, Str(SUB_STL)} ]

\* A first call of _extract_subtitles(url, video_data)
RaiExtractSubtitles ==
    /\ pc = "idle"
    /\ \E video_data \in VideoData :
         /\ inp' = [url |-> PAGE_URL, video_data |-> video_data]
         /\ loc' = [video_data |-> VideoDataAfter(video_data),
                    returned |-> <<ExtractSubtitles(PAGE_URL, video_data)>>]
         /\ out' = Return(ExtractSubtitles(PAGE_URL, video_data))
    /\ ie' = "RaiBaseIE._extract_subtitles"
    /\ pc' = "subtitles_called"
    /\ log' = <<>>
    /\ UNCHANGED sections

\* A second call with the same video_data object
RaiExtractSubtitlesAgain ==
    /\ ie = "RaiBaseIE._extract_subtitles"
    /\ pc = "subtitles_called"
    /\ loc' = [video_data |-> VideoDataAfter(loc.video_data),
               returned |-> Append(loc.returned, ExtractSubtitles(inp.url, loc.video_data))]
    /\ out' = Return(ExtractSubtitles(inp.url, loc.video_data))
    /\ pc' = "done"
    /\ UNCHANGED <<ie, inp, log>>
    /\ UNCHANGED sections

----------------------------------------------------------------------------
(* RaiPlayIE._real_extract and RaiIE (rai.py) *)

\* The characters of a text
Chars(s) == [i \in 1..Len(s) |-> SubSeq(s, i, i)]

CONTENT_ITEM == Chars("ContentItem-")

\* p is read in s from s[i] on
StartsAt(s, i, p) ==
    i >= 1 /\ i + Len(p) - 1 <= Len(s) /\ SubSeq(s, i, i + Len(p) - 1) = p

\* remove_start(s, start) of line 196: the text without the prefix that it
\* starts with; None, and a text that starts otherwise, are left as they are
RemoveStart(s, start) ==
    IF ~IsNone(s) /\ StartsWith(Val(s), start)
    THEN Some(SubSeq(Val(s), Len(start) + 1, Len(Val(s))))
    ELSE s

HEX_LETTERS == {"a", "b", "c", "d", "e", "f"}

\* [\da-f]: a decimal digit or a lower-case hexadecimal letter
IsUuidChar(c) == IsUDigit(c) \/ c \in HEX_LETTERS

\* The places of the hyphens in _UUID_RE, counted from 0
UUID_HYPHENS == {8, 13, 18, 23}

\* _UUID_RE (line 33) matches s from s[i] on: groups of 8, 4, 4, 4 and 12
UuidAt(s, i) ==
    /\ i >= 1
    /\ i + 35 <= Len(s)
    /\ \A k \in 0..35 :
          IF k \in UUID_HYPHENS THEN s[i + k] = "-" ELSE IsUuidChar(s[i + k])

\* 'ContentItem-(UUID)' matches s from s[i] on, and the group it captures
ContentItemAt(s, i) == StartsAt(s, i, CONTENT_ITEM) /\ UuidAt(s, i + Len(CONTENT_ITEM))

ContentItemIdAt(s, i) == SubSeq(s, i + Len(CONTENT_ITEM), i + Len(CONTENT_ITEM) + 35)

\* The numbers of S from the greatest down
RECURSIVE Descending(_)
Descending(S) ==
    IF S = {} THEN <<>>
    ELSE LET m == CHOOSE x \in S : \A y \in S : y <= x
         IN  <<m>> \o Descending(S \ {m})

NoMedia == Media(None, <<>>, <<>>, None)

Flags(geo, live, duration) == [geoprotection |-> geo, is_live |-> live, duration |-> duration]

\* What the three downloads of a relinker give, as the extractors below meet
\* them: playable, geo-blocked, empty, live, a download that fails (after
\* which no other is made) and a plain URL without a bitrate
RelinkerRuns ==
    { << Some(Response(Flags(Some("N"), None, Some(<<"0", "0", ":", "0", "1", ":", "3", "0">>)),
                       Media(Some(<<"http://", "cdn/master", ".", "m3u8">>), HLS_FORMATS, <<>>, None))),
         Some(Response(Flags(Some("N"), None, None), NoMedia)),
         Some(Response(Flags(Some("N"), None, None),
                       Media(Some(<<"http://", "cdn/video", ".", "mp4">>), <<>>, <<>>, Some(1200)))) >>,
      << Some(Response(Flags(Some("Y"), None, None), NoMedia)),
         Some(Response(Flags(Some("N"), None, None), NoMedia)),
         Some(Response(Flags(None, None, None), NoMedia)) >>,
      << Some(Response(Flags(None, None, None), NoMedia)),
         Some(Response(Flags(None, None, None), NoMedia)),
         Some(Response(Flags(Some("N"), None, None),
                       Media(Some(<<"http://", "cdn/video_no_available", ".", "mp4">>),
                             <<>>, <<>>, Some(0)))) >>,
      << Some(Response(Flags(None, Some("Y"), None),
                       Media(Some(<<"http://", "cdn/master", ".", "m3u8">>), HLS_FORMATS, <<>>, None))),
         Some(Response(Flags(None, Some("Y"), None),
                       Media(Some(<<"http://", "cdn/manifest", ".", "f4m">>), <<>>, HDS_FORMATS, None))),
         Some(Response(Flags(None, None, None), NoMedia)) >>,
      << Some(Response(Flags(Some("Y"), None, None),
                       Media(Some(<<"http://", "cdn/master", ".", "m3u8">>), HLS_FORMATS, <<>>, None))),
         None,
         None >>,
      << Some(Response(Flags(Some("N"), None, None), NoMedia)),
         Some(Response(Flags(Some("N"), None, None), NoMedia)),
         Some(Response(Flags(Some("N"), None, None),
                       Media(Some(<<"http://", "cdn/clip", ".", "mp4">>), <<>>, <<>>, None))) >> }

\* relinker_info with its formats sorted (lines 175-176, 390, 473-475)
SortedRelinkerInfo(info) ==
    IF info.kind = "raise" THEN info
    ELSE LET sorted == SortFormats(info.value.formats)
         IN  IF sorted.kind = "raise" THEN sorted
             ELSE Return([info.value EXCEPT !.formats = sorted.value])

\* info.update(relinker_info): the keys relinker_info has replace those of info
Updated(over, under) == IF IsNone(over) THEN under ELSE over

\* RaiPlayIE._real_extract; media is None when the download of the JSON fails
RaiPlayRealExtract(video_id, media, rs) ==
    IF IsNone(media) THEN Raise("ExtractorError")
    ELSE LET m == Val(media)
             relinker_info == SortedRelinkerInfo(ExtractRelinkerInfo(m.content_url, rs))
         IN  IF relinker_info.kind = "raise" THEN relinker_info
             ELSE Return([id |-> LET id == RemoveStart(m.id, CONTENT_ITEM)
                                 IN  IF IsNone(id) \/ Val(id) = <<>> THEN video_id
                                     ELSE Val(id),
                          display_id |-> video_id,
                          title |-> IF Truthy(relinker_info.value.is_live)
                                    THEN <<m.name, "now">> ELSE <<m.name>>,
                          duration |-> Updated(relinker_info.value.duration, ParseDuration(m.duration)),
                          is_live |-> relinker_info.value.is_live,
                          formats |-> relinker_info.value.formats])

\* The id of the URL
RAIPLAY_VIDEO_ID == Chars("cb27157f-9dd0-4aee-b788-b1f67643a391")

RAIPLAY_MEDIA_ID == Chars("2e90f1de-8eee-4de4-ac0e-78d21db5b600")

\* The values of the key 'id': a bare id, an id with the prefix, the prefix
\* alone, an empty text, and an id in which the prefix is read twice
RaiPlayMediaIds ==
    Opt({ RAIPLAY_MEDIA_ID,
          CONTENT_ITEM \o RAIPLAY_MEDIA_ID,
          CONTENT_ITEM,
          <<>>,
          CONTENT_ITEM \o CONTENT_ITEM \o RAIPLAY_MEDIA_ID })

RaiPlayMedia ==
    Opt([ name : {"Report"}, id : RaiPlayMediaIds, duration : Opt({Chars("01:42:40")}),
          content_url : {RELINKER_HTTP, RELINKER_MMS} ])

RaiPlayIERealExtract ==
    /\ pc = "idle"
    /\ \E media \in RaiPlayMedia, rs \in RelinkerRuns :
         /\ inp' = [video_id |-> RAIPLAY_VIDEO_ID, media |-> media, relinker |-> rs]
         /\ out' = RaiPlayRealExtract(RAIPLAY_VIDEO_ID, media, rs)
         /\ log' = <<"json">>
                   \o (IF IsNone(media) THEN <<>>
                       ELSE RelinkerRequests(Val(media).content_url, rs))
    /\ ie' = "RaiPlayIE"
    /\ pc' = "done"
    /\ loc' = <<>>
    /\ UNCHANGED sections

\* RaiIE._extract_from_content_id (lines 369-415); media is None when the
\* download of the JSON fails, a None name is a JSON without that key
ExtractFromContentId(content_id, media, rs) ==
    IF IsNone(media) THEN Raise("ExtractorError")
    ELSE LET m == Val(media) IN
    IF IsNone(m.name) THEN Raise("KeyError")
    ELSE
    LET relinker_info ==
            IF Contains(<<m.type>>, "Audio")
            THEN Return([is_live |-> None, duration |-> None,
                         formats |-> <<Format(m.audioUrl, m.formatoAudio, m.formatoAudio,
                                              None, None, None)>>])
            ELSE IF Contains(<<m.type>>, "Video")
            THEN ExtractRelinkerInfo(m.mediaUri, rs)
            ELSE Raise("ExtractorError")
        sorted == SortedRelinkerInfo(relinker_info)
    IN  IF sorted.kind = "raise" THEN sorted
        ELSE Return([id |-> content_id,
                     title |-> Strip(Val(m.name)),
                     duration |-> Updated(sorted.value.duration, ParseDuration(m.length)),
                     is_live |-> sorted.value.is_live,
                     formats |-> sorted.value.formats])

\* Lines 424-431: the first 'ContentItem-(UUID)' of the content of the
\* metadata tag; None when the tag is absent or empty, or holds no such text
MetaContentItemId(content_item_url) ==
    IF IsNone(content_item_url) \/ Val(content_item_url) = <<>> THEN None
    ELSE LET u == Val(content_item_url)
             hits == { i \in 1..Len(u) : ContentItemAt(u, i) }
         IN  IF hits = {} THEN None
             ELSE Some(ContentItemIdAt(u, CHOOSE i \in hits : \A j \in hits : i <= j))

INIT_EDIZIONE == Chars("initEdizione(")

DRAW_MEDIA == Chars("drawMediaRaiTV(")

DATA_ID == Chars("data-id=")

VAR == Chars("var")

UNIQUENAME == Chars("uniquename=")

IFRAME == Chars("<iframe")

SRC == Chars("src=")

QUOTES == {"\"", "'"}

\* '[^>]+\bword=' read from s[from] on: the places after its matches, the
\* longest run of '[^>]' first
RunEnds(s, from, word) ==
    Descending({ k + Len(word) : k \in { k \in (from + 1)..Len(s) :
                    /\ StartsAt(s, k, word)
                    /\ \A j \in from..(k - 1) : s[j] # ">"
                    /\ ~IsWord(s[k - 1]) } })

\* 'var\s+uniquename=' read from s[from] on
VarEnds(s, from) ==
    Descending({ k + Len(UNIQUENAME) : k \in { k \in (from + Len(VAR) + 1)..Len(s) :
                    /\ StartsAt(s, from, VAR)
                    /\ StartsAt(s, k, UNIQUENAME)
                    /\ \A j \in (from + Len(VAR))..(k - 1) : s[j] \in WHITESPACE } })

\* Lines 436-440: the places after the openings of the pattern that are read
\* from s[i] on, in the order in which the alternatives are tried
OpenEnds(s, i) ==
    (IF StartsAt(s, i, INIT_EDIZIONE) THEN <<i + Len(INIT_EDIZIONE)>> ELSE <<>>)
    \o (IF StartsAt(s, i, DRAW_MEDIA) THEN <<i + Len(DRAW_MEDIA)>> ELSE <<>>)
    \o (IF StartsAt(s, i, <<"<">>)
        THEN RunEnds(s, i + 1, DATA_ID) \o VarEnds(s, i + 1) ELSE <<>>)
    \o (IF StartsAt(s, i, IFRAME) THEN RunEnds(s, i + Len(IFRAME), SRC) ELSE <<>>)

\* Lines 441-442: a quote at s[e], then characters other than that quote and
\* the newline, as many as can be, then '\bContentItem-(UUID)'
QuotedId(s, e) ==
    IF e > Len(s) \/ s[e] \notin QUOTES THEN None
    ELSE LET hits == { j \in (e + 1)..Len(s) :
                         /\ ContentItemAt(s, j)
                         /\ ~IsWord(s[j - 1])
                         /\ \A x \in (e + 1)..(j - 1) : s[x] \notin {s[e], "\n"} }
         IN  IF hits = {} THEN None
             ELSE Some(ContentItemIdAt(s, CHOOSE j \in hits : \A x \in hits : x <= j))

RECURSIVE FirstQuotedId(_, _)
FirstQuotedId(s, ends) ==
    IF ends = <<>> THEN None
    ELSE IF ~IsNone(QuotedId(s, ends[1])) THEN QuotedId(s, ends[1])
    ELSE FirstQuotedId(s, Tail(ends))

\* Lines 433-443: the id of the first place of the page where the pattern
\* matches; None when it matches nowhere
MarkupContentItemId(webpage) ==
    LET hits == { i \in 1..Len(webpage) : ~IsNone(FirstQuotedId(webpage, OpenEnds(webpage, i))) }
    IN  IF hits = {} THEN None
        ELSE LET i == CHOOSE i \in hits : \A j \in hits : i <= j
             IN  FirstQuotedId(webpage, OpenEnds(webpage, i))

\* A variant that looks at the markup first
RaiContentItemIdMarkupFirst(page) ==
    IF IsNone(MarkupContentItemId(page.markup)) THEN MetaContentItemId(page.meta)
    ELSE MarkupContentItemId(page.markup)

\* Lines 422-443: the id of the metadata tag first, the id of the markup
\* when the tag gave none
RaiContentItemId(page) ==
    IF IsNone(MetaContentItemId(page.meta)) THEN MarkupContentItemId(page.markup)
    ELSE MetaContentItemId(page.meta)

\* The searches of lines 424-443 that are made
RaiSearches(page) ==
    << <<"search", "meta">> >>
    \o (IF IsNone(MetaContentItemId(page.meta)) THEN << <<"search", "markup">> >> ELSE <<>>)

\* Lines 445-449: the set of candidate ids
RaiCandidates(video_id, page) ==
    (IF IsNone(RaiContentItemId(page)) THEN {} ELSE {Val(RaiContentItemId(page))})
    \cup {video_id}

\* The orders in which a set may be iterated
Orders(S) == { o \in [1..Cardinality(S) -> S] : \A x \in S : \E i \in DOMAIN o : o[i] = x }

\* InfoExtractor._proto_relative_url(url) (extractor/common.py): a URL that
\* starts with '//' gets the scheme before it, 'http:' when the parameter
\* prefer_insecure is set and 'https:' otherwise
ProtoRelativeUrl(url, prefer_insecure) ==
    IF url[1] = "//"
    THEN <<(IF prefer_insecure THEN "http:" ELSE "https:") \o url[1]>> \o Tail(url)
    ELSE url

\* Lines 459-475: the URL that _extract_relinker_info is called with.  The
\* pattern of lines 460-470 finds a URL that starts with 'http://',
\* 'https://' or '//', so the URL passed on always has a scheme.
RaiRelinkerUrl(url, relinker_url, prefer_insecure) ==
    UrlJoin(url, ProtoRelativeUrl(relinker_url, prefer_insecure))

\* Lines 473-489, for what _extract_relinker_info gave
RaiFallbackRecord(video_id, page, relinker_info) ==
    IF relinker_info.kind = "raise" THEN relinker_info
    ELSE IF IsNone(page.title) THEN Raise("RegexNotFoundError")
    ELSE Return([id |-> video_id,
                 title |-> Val(page.title),
                 duration |-> relinker_info.value.duration,
                 is_live |-> relinker_info.value.is_live,
                 formats |-> relinker_info.value.formats])

\* Lines 459-489: the relinker URL of the page; a None relinker is a page in
\* which the pattern is not found
RaiFallback(url, video_id, page, prefer_insecure, rs) ==
    IF IsNone(page.relinker) THEN Raise("RegexNotFoundError")
    ELSE RaiFallbackRecord(video_id, page,
             SortedRelinkerInfo(ExtractRelinkerInfo(
                 RaiRelinkerUrl(url, Val(page.relinker), prefer_insecure), rs)))

\* The requests of lines 473-474: the call of _extract_relinker_info and the
\* downloads it makes
RaiFallbackRequests(video_id, relinker_url, rs) ==
    << <<"relinker", video_id>> >>
    \o [k \in 1..Len(RelinkerRequests(relinker_url, rs)) |->
           <<"xml", relinker_url, RelinkerRequests(relinker_url, rs)[k]>>]

RAI_URL == <<"http://www.rai.it">> \o Chars("/dl/RaiTV/programmi/media/video.html")

\* A relinker URL written without its scheme
RELINKER_RELATIVE ==
    <<"//", "mediapolis.rai.it/relinker/relinkerServlet.htm", "?", "cont=abc">>

RAI_VIDEO_ID == Chars("04a9f4bd-b563-40cf-82a6-aad3529cb4a9")

RAI_META_ID == Chars("1632c009-c843-4836-bb65-80c33084a64b")

RAI_MARKUP_ID == Chars("5a3cd4bb-8eee-4de4-ac0e-78d21db5b600")

RAI_OTHER_ID == Chars("b4a49761-e0cc-4b14-8736-2729f6f73132")

RAI_DL == Chars("http://www.rai.it/dl/")

\* The id of the metadata tag with a Devanagari digit one for its first
\* digit, which \d matches, and with a full-width letter c for its first
\* letter, which [a-f] does not match
RAI_META_ID_DEVANAGARI == <<"U+0967">> \o Tail(RAI_META_ID)

RAI_META_ID_FULLWIDTH == [RAI_META_ID EXCEPT ![5] = "U+FF43"]

\* The id of the markup with a Thai digit zero for its last digit
RAI_MARKUP_ID_THAI == [RAI_MARKUP_ID EXCEPT ![36] = "U+0E50"]

\* The content of the metadata tag: absent, empty, without an id, with an
\* id, with the id of the URL, with an id in capitals, with an id after
\* a 'ContentItem-' that no id follows, and with the ids written with a
\* digit and with a letter outside ASCII
RaiMetas ==
    { None,
      Some(<<>>),
      Some(RAI_DL \o CONTENT_ITEM \o Chars("portale.html")),
      Some(RAI_DL \o CONTENT_ITEM \o RAI_META_ID \o Chars(".html")),
      Some(RAI_DL \o CONTENT_ITEM \o RAI_VIDEO_ID \o Chars(".html")),
      Some(RAI_DL \o CONTENT_ITEM \o Chars("1632C009-C843-4836-BB65-80C33084A64B.html")),
      Some(RAI_DL \o CONTENT_ITEM \o Chars("x/") \o CONTENT_ITEM \o RAI_META_ID),
      Some(RAI_DL \o CONTENT_ITEM \o RAI_META_ID_DEVANAGARI \o Chars(".html")),
      Some(RAI_DL \o CONTENT_ITEM \o RAI_META_ID_FULLWIDTH \o Chars(".html")) }

\* The markup of the page: without an id, with an id in an attribute, with
\* two ids between the quotes of an iframe, with an id behind a closed quote,
\* with an id in a script that the pattern does not open, with a letter e
\* acute before 'ContentItem-' and before 'data-id', where \b finds no word
\* boundary, and with an id that ends in a Thai digit
RaiMarkups ==
    { Chars("<p>ContentItem</p>"),
      Chars("<div class='a' data-id=\"") \o CONTENT_ITEM \o RAI_MARKUP_ID \o Chars("\">"),
      Chars("<iframe src='/") \o CONTENT_ITEM \o RAI_OTHER_ID \o Chars(".html?next=/")
          \o CONTENT_ITEM \o RAI_MARKUP_ID \o Chars("'>"),
      Chars("drawMediaRaiTV('a', '") \o CONTENT_ITEM \o RAI_MARKUP_ID \o Chars("')"),
      Chars("var uniquename = \"") \o CONTENT_ITEM \o RAI_MARKUP_ID \o Chars("\""),
      Chars("<div data-id=\"") \o <<"U+00E9">> \o CONTENT_ITEM \o RAI_MARKUP_ID \o Chars("\">"),
      Chars("<div ") \o <<"U+00E9">> \o Chars("data-id=\"") \o CONTENT_ITEM \o RAI_MARKUP_ID
          \o Chars("\">"),
      Chars("<iframe src='") \o CONTENT_ITEM \o RAI_MARKUP_ID_THAI \o Chars("'>") }

RaiPages ==
    [ meta : RaiMetas,
      markup : RaiMarkups,
      relinker : Opt({RELINKER_HTTP, RELINKER_RELATIVE}),
      title : Opt({"TG PRIMO TEMPO"}) ]

\* The media JSON; formatoAudio is None for a JSON without that key
RaiMediaItem(name, type, mediaUri, audioUrl, formatoAudio, length) ==
    [name |-> name, type |-> type, mediaUri |-> mediaUri, audioUrl |-> audioUrl,
     formatoAudio |-> formatoAudio, length |-> length]

RAI_AUDIO_URL == <<"http://", "cdn/gr1", ".", "mp3">>

RaiMediaItems ==
    Opt({ RaiMediaItem(Some(<<"U+00A0">> \o Chars(" TG 1\n")), "RaiTv Media Video Item",
                       RELINKER_HTTP, <<>>, None, Some(Chars("00:29:18"))),
          RaiMediaItem(Some(Chars("GR 1")), "RaiTv Media Audio Item",
                       <<>>, RAI_AUDIO_URL, Some("mp3"), None),
          RaiMediaItem(Some(Chars("GR 2")), "RaiTv Media Audio Item",
                       <<>>, RAI_AUDIO_URL, Some("wav"), None),
          RaiMediaItem(Some(Chars("GR 3")), "RaiTv Media Audio Item",
                       <<>>, RAI_AUDIO_URL, None, None),
          RaiMediaItem(Some(Chars("Foto")), "RaiTv Media Foto Item", <<>>, <<>>, None, None),
          RaiMediaItem(None, "RaiTv Media Video Item", RELINKER_HTTP, <<>>, None, None) })

\* Lines 417-449: the page is fetched and searched, the candidates are set
\* Line 420: the download of the page failed, which is fatal
RaiNoPage ==
    /\ log' = << <<"page", RAI_VIDEO_ID>> >>
    /\ loc' = [content_item_id |-> None, order |-> <<>>, tried |-> <<>>]
    /\ pc' = "done"
    /\ out' = Raise("ExtractorError")

\* Lines 422-449, for the page that was downloaded
RaiPage(page) ==
    /\ page.relinker = None => page.title = None
    /\ log' = << <<"page", RAI_VIDEO_ID>> >> \o RaiSearches(page)
    /\ \E order \in Orders(RaiCandidates(RAI_VIDEO_ID, page)) :
         loc' = [content_item_id |-> RaiContentItemId(page), order |-> order, tried |-> <<>>]
    /\ pc' = "rai_ids"
    /\ out' = out

RaiStart ==
    /\ pc = "idle"
    /\ \E page \in Opt(RaiPages) :
         /\ inp' = [video_id |-> RAI_VIDEO_ID, page |-> page]
         /\ IF IsNone(page) THEN RaiNoPage ELSE RaiPage(Val(page))
    /\ ie' = "RaiIE"
    /\ UNCHANGED sections

\* A variant without the clause `except GeoRestrictedError: raise': the
\* geo-restricted error, an ExtractorError too, is passed over like the others
RaiSwallowedWithGeo(r) ==
    r.kind = "raise" /\ r.exc \in {"ExtractorError", "GeoRestrictedError"}

\* Lines 454-457: the exceptions of a candidate that the loop passes over
RaiSwallowed(r) == r.kind = "raise" /\ r.exc = "ExtractorError"

\* Lines 451-457: the next candidate id is tried
RaiTry ==
    /\ ie = "RaiIE"
    /\ pc = "rai_ids"
    /\ Len(loc.tried) < Len(loc.order)
    /\ \E media \in RaiMediaItems, rs \in RelinkerRuns :
         LET content_item_id == loc.order[Len(loc.tried) + 1]
             r == ExtractFromContentId(content_item_id, media, rs)
         IN  /\ (IsNone(media) \/ Contains(<<Val(media).type>>, "Audio")
                 \/ ~Contains(<<Val(media).type>>, "Video")
                 \/ IsNone(Val(media).name))
                   => rs = CHOOSE x \in RelinkerRuns : TRUE
             /\ log' = Append(log, <<"json", content_item_id>>)
             /\ loc' = [loc EXCEPT !.tried = Append(@, [id |-> content_item_id,
                                       result |-> IF r.kind = "raise" THEN r.exc ELSE "ok"])]
             /\ IF RaiSwallowed(r)
                THEN pc' = pc /\ out' = out
                ELSE pc' = "done" /\ out' = r
    /\ UNCHANGED <<ie, inp>>
    /\ UNCHANGED sections

\* Lines 459-489: no candidate gave a record
RaiRelinkerFallback ==
    /\ ie = "RaiIE"
    /\ pc = "rai_ids"
    /\ Len(loc.tried) = Len(loc.order)
    /\ \E rs \in RelinkerRuns, prefer_insecure \in BOOLEAN :
         /\ IsNone(Val(inp.page).relinker) =>
               (rs = CHOOSE x \in RelinkerRuns : TRUE) /\ ~prefer_insecure
         /\ out' = RaiFallback(RAI_URL, inp.video_id, Val(inp.page), prefer_insecure, rs)
         /\ log' = log \o (IF IsNone(Val(inp.page).relinker) THEN <<>>
                            ELSE RaiFallbackRequests(inp.video_id,
                                     RaiRelinkerUrl(RAI_URL, Val(Val(inp.page).relinker),
                                                    prefer_insecure), rs))
    /\ pc' = "done"
    /\ UNCHANGED <<ie, inp, loc>>
    /\ UNCHANGED sections

----------------------------------------------------------------------------
(* RaiPlayPlaylistIE._real_extract (rai.py) *)

MaxProgram == 5

\* A URL is an origin followed by tokens of its path; the path of a video
\* page is <<directory and slug, UUID, '.html'>>.
RAIPLAY == "http://www.raiplay.it"

PLAYLIST_ID == "nondirloalmiocapo"

\* RaiPlayIE._match_id(video_url): the group 'id' of RaiPlayIE._VALID_URL;
\* a URL that the pattern does not match gives no id
RaiPlayMatchId(video_url) ==
    IF Len(video_url) = 4 /\ video_url[1] = RAIPLAY /\ video_url[4] \in {".html", ".json"}
    THEN Some(video_url[3]) ELSE None

\* Lines 268-275: the entries of the items of one content set
RECURSIVE PlaylistItems(_)
PlaylistItems(items) ==
    IF items = <<>> THEN <<>>
    ELSE (IF IsNone(items[1].path_id) \/ Val(items[1].path_id) = <<>> THEN <<>>
          ELSE LET video_url == <<RAIPLAY>> \o Val(items[1].path_id)
               IN  <<[type |-> "url", url |-> video_url, ie_key |-> "RaiPlay",
                      id |-> RaiPlayMatchId(video_url)]>>)
         \o PlaylistItems(Tail(items))

\* A variant in which a content set that cannot be downloaded ends the loop
\* over the sets of its block
RECURSIVE PlaylistSetsUntilFailure(_, _)
PlaylistSetsUntilFailure(sets, acc) ==
    IF sets = <<>> THEN acc
    ELSE IF IsNone(sets[1].id) \/ Val(sets[1].id) = "" THEN acc
    ELSE IF IsNone(sets[1].medias)
         THEN [acc EXCEPT !.requests = Append(@, <<"programmi", PLAYLIST_ID, Val(sets[1].id)>>)]
    ELSE PlaylistSetsUntilFailure(Tail(sets),
             [entries |-> acc.entries \o PlaylistItems(Val(sets[1].medias).items),
              requests |-> Append(acc.requests, <<"programmi", PLAYLIST_ID, Val(sets[1].id)>>)])

\* Lines 259-275: the sets of one block.  A set carries what the download of
\* its content-set JSON gives: None when it fails (fatal=False), and items is
\* <<>> when the JSON has no 'items'.  acc is [entries, requests] so far.
RECURSIVE PlaylistSets(_, _)
PlaylistSets(sets, acc) ==
    IF sets = <<>> THEN acc
    ELSE IF IsNone(sets[1].id) \/ Val(sets[1].id) = "" THEN PlaylistSets(Tail(sets), acc)
    ELSE PlaylistSets(Tail(sets),
             [entries |-> acc.entries
                          \o (IF IsNone(sets[1].medias) THEN <<>>
                              ELSE PlaylistItems(Val(sets[1].medias).items)),
              requests |-> Append(acc.requests, <<"programmi", PLAYLIST_ID, Val(sets[1].id)>>)])

\* Lines 258-275: the blocks; a block without 'sets' has sets = <<>>
RECURSIVE PlaylistBlocks(_, _)
PlaylistBlocks(blocks, acc) ==
    IF blocks = <<>> THEN acc
    ELSE PlaylistBlocks(Tail(blocks), PlaylistSets(blocks[1].sets, acc))

PlaylistStart == [entries |-> <<>>, requests |-> << <<"programmi", PLAYLIST_ID>> >>]

\* Lines 251-279.  program is None when the download of the program JSON fails.
PlaylistRealExtract(program) ==
    IF IsNone(program) THEN Raise("ExtractorError")
    ELSE Return([type |-> "playlist",
                 id |-> PLAYLIST_ID,
                 title |-> Val(program).name,
                 description |-> Val(program).description,
                 entries |-> PlaylistBlocks(Val(program).blocks, PlaylistStart).entries])

PlaylistRequests(program) ==
    IF IsNone(program) THEN PlaylistStart.requests
    ELSE PlaylistBlocks(Val(program).blocks, PlaylistStart).requests

\* The inputs: items, content sets, and programs of at most MaxProgram blocks
\* and sets together
PATH_1 == <<"/video/2016/ep1-", "cb27157f", ".html">>

PATH_2 == <<"/video/2016/ep2-", "1ad6dc64", ".html">>

PATH_3 == <<"/video/2016/ep3-", "e5e0a2c1", ".html">>

Item(path_id) == [path_id |-> path_id]

ContentSets ==
    { [id |-> None, medias |-> None],
      [id |-> Some(""), medias |-> None],
      [id |-> Some("set-a"), medias |-> None],
      [id |-> Some("set-a"), medias |-> Some([items |-> <<>>])],
      [id |-> Some("set-a"), medias |-> Some([items |-> <<Item(Some(PATH_1)), Item(Some(PATH_2))>>])],
      [id |-> Some("set-b"), medias |-> Some([items |-> <<Item(None), Item(Some(PATH_3)), Item(Some(<<>>))>>])],
      [id |-> Some("set-c"), medias |-> Some([items |-> <<Item(Some(PATH_2))>>])] }

RECURSIVE SetLists(_)
SetLists(n) ==
    IF n = 0 THEN {<<>>}
    ELSE {<<>>} \cup { <<s>> \o l : s \in ContentSets, l \in SetLists(n - 1) }

\* Lists of blocks whose blocks and sets are n at most
RECURSIVE BlockLists(_)
BlockLists(n) ==
    IF n = 0 THEN {<<>>}
    ELSE {<<>>} \cup UNION { { <<[sets |-> s]>> \o l : s \in { x \in SetLists(k) : Len(x) = k },
                                                   l \in BlockLists(n - 1 - k) }
                             : k \in 0..(n - 1) }

Programs ==
    { [name |-> Some("Non dirlo al mio capo"), description |-> d, blocks |-> b] :
          d \in Opt({"md5:98ab"}), b \in BlockLists(MaxProgram) }

RaiPlayPlaylistRealExtract ==
    /\ pc = "idle"
    /\ \E program \in Opt(Programs) :
         /\ inp' = [playlist_id |-> PLAYLIST_ID, program |-> program]
         /\ out' = PlaylistRealExtract(program)
         /\ log' = PlaylistRequests(program)
    /\ ie' = "RaiPlayPlaylistIE"
    /\ pc' = "done"
    /\ loc' = <<>>
    /\ UNCHANGED sections

----------------------------------------------------------------------------
(* HTMLListAttrsParser and RaiPlayRadioBaseIE.parse_list (rai.py) *)

MaxEvents == 4

\* The events that HTMLParser.feed delivers for a page: start tags with their
\* attributes and end tags.  <br> gives a start tag only, <br/> a start tag
\* and an end tag.
StartTag(tag, attrs) == [event |-> "start", tag |-> tag, attrs |-> attrs]

EndTag(tag) == [event |-> "end", tag |-> tag]

DataId(v) == "data-id" :> v

NoAttrs == <<>>

Events ==
    { StartTag("li", DataId("a")), StartTag("li", DataId("b")),
      StartTag("ul", NoAttrs), StartTag("br", NoAttrs),
      EndTag("li"), EndTag("ul"), EndTag("br") }

\* HTMLListAttrsParser.__init__
ParserInit == [items |-> <<>>, _level |-> 0]

\* HTMLListAttrsParser.handle_starttag
handle_starttag(self, tag, attrs) ==
    [items |-> IF tag = "li" /\ self._level = 0 THEN Append(self.items, attrs)
               ELSE self.items,
     _level |-> self._level + 1]

\* HTMLListAttrsParser.handle_endtag
handle_endtag(self, tag) == [self EXCEPT !._level = @ - 1]

\* parser.feed(webpage) for the events of a page
RECURSIVE ParserFeed(_, _)
ParserFeed(self, events) ==
    IF events = <<>> THEN self
    ELSE ParserFeed(IF events[1].event = "start"
                    THEN handle_starttag(self, events[1].tag, events[1].attrs)
                    ELSE handle_endtag(self, events[1].tag),
                    Tail(events))

\* parse_list(webpage), lines 510-514
ParseList(events) == ParserFeed(ParserInit, events).items

\* parse_list, line 511: a new parser for every page
ParseListFeed ==
    /\ pc = "idle"
    /\ ie' = "HTMLListAttrsParser"
    /\ pc' = "feeding"
    /\ inp' = [events |-> <<>>]
    /\ loc' = ParserInit
    /\ UNCHANGED <<out, log>>
    /\ UNCHANGED sections

ParserStartTag ==
    /\ ie = "HTMLListAttrsParser"
    /\ pc = "feeding"
    /\ Len(inp.events) < MaxEvents
    /\ \E e \in { x \in Events : x.event = "start" } :
         /\ inp' = [events |-> Append(inp.events, e)]
         /\ loc' = handle_starttag(loc, e.tag, e.attrs)
    /\ UNCHANGED <<ie, pc, out, log>>
    /\ UNCHANGED sections

ParserEndTag ==
    /\ ie = "HTMLListAttrsParser"
    /\ pc = "feeding"
    /\ Len(inp.events) < MaxEvents
    /\ \E e \in { x \in Events : x.event = "end" } :
         /\ inp' = [events |-> Append(inp.events, e)]
         /\ loc' = handle_endtag(loc, e.tag)
    /\ UNCHANGED <<ie, pc, out, log>>
    /\ UNCHANGED sections

\* parse_list, lines 513-514: close() and return parser.items
ParseListReturn ==
    /\ ie = "HTMLListAttrsParser"
    /\ pc = "feeding"
    /\ out' = Return(loc.items)
    /\ pc' = "done"
    /\ UNCHANGED <<ie, inp, loc, log>>
    /\ UNCHANGED sections

----------------------------------------------------------------------------
(* RaiPlayRadioBaseIE.get_playlist_iter and RaiPlayRadioIE (rai.py) *)

MaxItems == 2

\* s.lstrip(chars): the leading characters of s that occur in chars are removed
RECURSIVE LStrip(_, _)
LStrip(s, chars) ==
    IF s # <<>> /\ (\E i \in 1..Len(chars) : chars[i] = s[1]) THEN LStrip(Tail(s), chars)
    ELSE s

\* s.replace(old, new): every occurrence of old, from the left
RECURSIVE Replace(_, _, _)
Replace(s, old, new) ==
    IF Len(s) < Len(old) THEN s
    ELSE IF SubSeq(s, 1, Len(old)) = old
    THEN new \o Replace(SubSeq(s, Len(old) + 1, Len(s)), old, new)
    ELSE <<s[1]>> \o Replace(Tail(s), old, new)

RADIO_BASE == "https://www.raiplayradio.it"

DOT_HTML == <<".", "h", "t", "m", "l">>

LIST_HTML == <<"-", "l", "i", "s", "t", ".", "h", "t", "m", "l">>

\* A URL that _VALID_URL accepts: _BASE, '/audio/', a slug, '-', the id, '.html'
RadioUrl(audio_id) ==
    <<RADIO_BASE, "/", "a", "u", "d", "i", "o", "/", "2", "0", "1", "9", "/", "X", "-">>
    \o audio_id \o DOT_HTML

\* Line 553: url.replace('.html', '-list.html')
RadioListUrl(url) == <<url[1]>> \o Replace(Tail(url), DOT_HTML, LIST_HTML)

\* Lines 519-530: the entry of one <li>, KeyError when an attribute is missing.
\* attrs is the dictionary of the attributes, None for an attribute the <li>
\* does not have; the entry has no thumbnail when there is no data-image.
RadioEntry(url, attrs) ==
    IF IsNone(attrs.title) \/ IsNone(attrs.mediapolis) \/ IsNone(attrs.uniquename)
    THEN Raise("KeyError")
    ELSE Return([url |-> UrlJoinOrNone(url, Val(attrs.mediapolis)),
                 id |-> LStrip(Val(attrs.uniquename), CONTENT_ITEM),
                 title |-> Strip(Val(attrs.title)),
                 ext |-> "mp3",
                 language |-> "it",
                 thumbnail |-> IF IsNone(attrs.image) THEN None
                               ELSE Some(UrlJoinOrNone(url, Val(attrs.image)))])

\* Lines 554-556: the first entry with the wanted id; None when the loop ends
RECURSIVE RadioFind(_, _, _)
RadioFind(url, items, audio_id) ==
    IF items = <<>> THEN Return(None)
    ELSE LET entry == RadioEntry(url, items[1])
         IN  IF entry.kind = "raise" THEN entry
             ELSE IF entry.value.id = audio_id THEN entry
             ELSE RadioFind(url, Tail(items), audio_id)

\* Lines 551-556.  webpage is None when the download of the list page fails,
\* else the start tags and end tags of the page
RadioRealExtract(url, audio_id, webpage) ==
    IF IsNone(webpage) THEN Raise("ExtractorError")
    ELSE RadioFind(RadioListUrl(url), ParseList(Val(webpage)), audio_id)

\* Identifiers: the leading groups of UUIDs
RadioIds == { <<"3", "6", "b", "0", "9", "9", "f", "f">>, <<"e", "5", "e", "0", "a", "2", "c", "1">> }

RADIO_TITLE == <<" ", "L", "e", "z", "i", "o", "n", "i", " ", "d", "i", " ", "m", "u", "s", "i", "c", "a", "\n">>

RADIO_RELINKER == <<"/", "/", "m", "e", "d", "i", "a", "p", "o", "l", "i", "s", ".", "r", "a", "i", ".", "i", "t", "/", "r">>

RADIO_PATH == <<"/", "r", "e", "l", "i", "n", "k", "e", "r", "/", "a", "?", "c", "o", "n", "t", "=", "b">>

RADIO_FILE == <<"r", ".", "m", "p", "3">>

RADIO_IMAGE == <<"/", "c", "r", "o", "p", "/", "i", ".", "j", "p", "g">>

RadioAttrs(uniquename, title, mediapolis, image) ==
    [uniquename |-> uniquename, title |-> title, mediapolis |-> mediapolis, image |-> image]

\* The <li> elements of a list page, by their attributes
RadioItems ==
    { RadioAttrs(Some(CONTENT_ITEM \o <<"3", "6", "b", "0", "9", "9", "f", "f">>),
                 Some(RADIO_TITLE), Some(RADIO_RELINKER), Some(RADIO_IMAGE)),
      RadioAttrs(Some(CONTENT_ITEM \o <<"3", "6", "b", "0", "9", "9", "f", "f">>),
                 Some(RADIO_TITLE), Some(RADIO_FILE), None),
      RadioAttrs(Some(CONTENT_ITEM \o <<"e", "5", "e", "0", "a", "2", "c", "1">>),
                 Some(RADIO_TITLE), Some(RADIO_PATH), Some(<<>>)),
      RadioAttrs(Some(CONTENT_ITEM \o <<"e", "5", "e", "0", "a", "2", "c", "1">>),
                 Some(RADIO_TITLE), Some(<<>>), None),
      RadioAttrs(Some(CONTENT_ITEM), None, None, None) }

RECURSIVE RadioLists(_)
RadioLists(n) ==
    IF n = 0 THEN {<<>>}
    ELSE {<<>>} \cup { <<c>> \o l : c \in RadioItems, l \in RadioLists(n - 1) }

\* The events of a page made of the elements <li ...></li>
RECURSIVE RadioPage(_)
RadioPage(items) ==
    IF items = <<>> THEN <<>>
    ELSE <<StartTag("li", items[1]), EndTag("li")>> \o RadioPage(Tail(items))

RadioPageOrNone(items) == IF IsNone(items) THEN None ELSE Some(RadioPage(Val(items)))

RaiPlayRadioRealExtract ==
    /\ pc = "idle"
    /\ \E audio_id \in RadioIds, webpage \in Opt(RadioLists(MaxItems)) :
         /\ inp' = [url |-> RadioUrl(audio_id), audio_id |-> audio_id, webpage |-> webpage]
         /\ out' = RadioRealExtract(RadioUrl(audio_id), audio_id, RadioPageOrNone(webpage))
         /\ log' = <<RadioListUrl(RadioUrl(audio_id))>>
    /\ ie' = "RaiPlayRadioIE"
    /\ pc' = "done"
    /\ loc' = <<>>
    /\ UNCHANGED sections

----------------------------------------------------------------------------
(* The specification *)

Init ==
    /\ ie = "none"
    /\ pc = "idle"
    /\ inp = <<>>
    /\ loc = <<>>
    /\ out = NoOutcome
    /\ log = <<>>
    /\ sections = SECTIONS

\* Every call is independent of the calls before it: the next one starts from
\* the state after construction.
NextCall ==
    /\ pc = "done"
    /\ ie' = "none"
    /\ pc' = "idle"
    /\ inp' = <<>>
    /\ loc' = <<>>
    /\ out' = NoOutcome
    /\ log' = <<>>
    /\ UNCHANGED sections

Next ==
    \/ LivestreamfailsRealExtract
    \/ NRKTVStr2Seconds
    \/ NRKTVRealExtract
    \/ NRKRealExtract
    \/ AppleStart
    \/ AppleUnreadable
    \/ AppleSkip
    \/ AppleTrailer
    \/ AppleReturn
    \/ AppleTrailersSectionRealExtract
    \/ RelinkerStart
    \/ RelinkerQuery
    \/ RelinkerReturn
    \/ RaiExtractSubtitles
    \/ RaiExtractSubtitlesAgain
    \/ RaiPlayIERealExtract
    \/ RaiStart
    \/ RaiTry
    \/ RaiRelinkerFallback
    \/ RaiPlayPlaylistRealExtract
    \/ ParseListFeed
    \/ ParserStartTag
    \/ ParserEndTag
    \/ ParseListReturn
    \/ RaiPlayRadioRealExtract
    \/ NextCall

Spec == Init /\ [][Next]_vars

----------------------------------------------------------------------------
(* Properties of LivestreamfailsIE *)

LsfTestUrl ==
    <<"https", "://", "livestreamfails.com", "/clip/", "1", "3", "9", "2", "0", "0">>

\* The seconds from 1970-01-01T00:00:00 UTC to an instant, counted day by day
RECURSIVE DaysOfYears(_)
DaysOfYears(y) ==
    IF y <= 1970 THEN 0
    ELSE DaysOfYears(y - 1) + (IF IsLeap(y - 1) THEN 366 ELSE 365)

RECURSIVE DaysOfMonths(_, _)
DaysOfMonths(y, m) ==
    IF m <= 1 THEN 0 ELSE DaysOfMonths(y, m - 1) + DaysInMonth(y, m - 1)

EpochSeconds(t) ==
    (DaysOfYears(t[1]) + DaysOfMonths(t[1], t[2]) + (t[3] - 1)) * 86400
    + t[4] * 3600 + t[5] * 60 + t[6]

\* The values calendar.timegm gives for the instants of LsfInstants
KnownEpochSeconds(t) ==
    CASE t = <<2022, 6, 26, 19, 29, 45>> -> 1656271785
      [] t = <<1970, 1, 1, 0, 0, 0>> -> 0
      [] t = <<2000, 2, 29, 23, 59, 59>> -> 951868799
      [] t = <<2024, 3, 1, 0, 0, 0>> -> 1709251200
      [] t = <<2037, 12, 31, 23, 59, 59>> -> 2145916799
      [] OTHER -> EpochSeconds(t)

\* id is the run of digits that follows "/clip/" in url
IsIdOfUrl(id, url) ==
    LET rest == SubSeq(url, 5, Len(url))
    IN  /\ id # <<>>
        /\ AllDigits(id)
        /\ Len(id) <= Len(rest)
        /\ SubSeq(rest, 1, Len(id)) = id
        /\ Len(rest) > Len(id) => ~IsDigit(rest[Len(id) + 1])

\* C5: a record returned by LivestreamfailsIE has url = the fixed video prefix
\* followed by the response's videoId, id = the digits matched from the input
\* URL, and timestamp = the whole seconds from the epoch to createdAt read as
\* UTC, whatever the local time zone is and however the text of the instant
\* is written.
C5_LivestreamfailsRecord ==
    (ie = "LivestreamfailsIE" /\ Returned) =>
        /\ out.value.url = "https://livestreamfails-video-prod.b-cdn.net/video/"
                           \o Val(Val(inp.api).videoId)
        /\ IsIdOfUrl(out.value.id, inp.url)
        /\ (~IsNone(inp.created) /\ Val(inp.created).form # "empty") =>
              /\ out.value.timestamp = Some(EpochSeconds(Val(inp.created).t))
              /\ out.value.timestamp = Some(KnownEpochSeconds(Val(inp.created).t))

\* The clip of _TESTS, extracted in a time zone one hour east of UTC, its
\* createdAt written with Devanagari digits where \d of strptime takes them
C5_Witness ==
    /\ ie = "LivestreamfailsIE"
    /\ Returned
    /\ inp.url = LsfTestUrl
    /\ inp.created = Some([t |-> <<2022, 6, 26, 19, 29, 45>>, frac |-> Some(<<"5", "1", "5">>),
                            form |-> "devanagari"])
    /\ SubSeq(Val(Val(inp.api).createdAt), 1, 10)
           = <<"U+0968", "U+0966", "U+0968", "U+0968", "-", "0", "6", "-", "2", "U+096C">>
    /\ inp.tz = 3600
    /\ out.value.id = <<"1", "3", "9", "2", "0", "0">>
    /\ out.value.timestamp = Some(1656271785)

LsfCreatedWellFormed(created) ==
    \/ IsNone(created)
    \/ /\ ~IsNone(Val(created).frac)
       /\ Val(created).t[3] <= DaysInMonth(Val(created).t[1], Val(created).t[2])

\* C7: a response that lacks createdAt, sourceId, label, streamer or imageId
\* still gives a record, in which exactly the fields that were missing are
\* absent.
C7_MissingOptionalFieldNotFatal ==
    (/\ ie = "LivestreamfailsIE"
     /\ pc = "done"
     /\ ~IsNone(inp.api)
     /\ ~IsNone(Val(inp.api).videoId)
     /\ Val(inp.api).streamer # Some(JSON_NULL)
     /\ LsfCreatedWellFormed(inp.created)) =>
        /\ out.kind = "return"
        /\ IsNone(out.value.timestamp) <=> IsNone(Val(inp.api).createdAt)
        /\ IsNone(out.value.display_id) <=> IsNone(Val(inp.api).sourceId)
        /\ IsNone(out.value.title) <=> IsNone(Val(inp.api).label)
        /\ IsNone(out.value.creator) <=>
              (IsNone(Val(inp.api).streamer) \/ IsNone(Val(Val(inp.api).streamer).label))
        /\ IsNone(out.value.thumbnail) <=> IsNone(Val(inp.api).imageId)

----------------------------------------------------------------------------
(* Properties of NRKTVIE and NRKIE *)

\* HH:MM:SS or HH:MM:SS.mmm
WellFormedTimeCode(fields) ==
    /\ Len(fields) = 3
    /\ Len(fields[1]) = 2 /\ AllDigits(fields[1])
    /\ Len(fields[2]) = 2 /\ AllDigits(fields[2])
    /\ LET sf == Split(fields[3], ".")
       IN  /\ Len(sf) \in {1, 2}
           /\ Len(sf[1]) = 2 /\ AllDigits(sf[1])
           /\ Len(sf) = 2 => (Len(sf[2]) = 3 /\ AllDigits(sf[2]))

\* hours*3600 + minutes*60 + seconds in floating point: the whole seconds of
\* the hours and minutes, and the double nearest to the seconds, added
TimeCodeSeconds(fields) ==
    LET sf == Split(fields[3], ".")
    IN  FloatAdd(Dec(DecVal(fields[1]) * 3600 + DecVal(fields[2]) * 60, 0),
                 Rounded(1, StripZeros(DigitValues(sf[1] \o (IF Len(sf) = 2 THEN sf[2] ELSE <<>>))),
                         IF Len(sf) = 2 THEN Len(sf[2]) ELSE 0))

\* C4: _str2seconds gives hours*3600 + minutes*60 + seconds for a well-formed
\* time code, and zero, without raising, for every other one.
C4_Str2SecondsTotal ==
    (ie = "NRKTVIE._str2seconds" /\ pc = "done") =>
        IF WellFormedTimeCode(inp.fields)
        THEN out = Return(TimeCodeSeconds(inp.fields))
        ELSE out = Return(Dec(0, 0))

CueUnparsable(c) ==
    \/ IsNone(c.begin) \/ IsNone(c.dur)
    \/ Val(c.begin) = TC_GARBAGE \/ Val(c.dur) = TC_GARBAGE

\* C8: when the page names a subtitles URL and the subtitle download or its
\* parsing fails, the video record is still returned, with empty subtitles.
C8_SubtitleFailureNotFatal ==
    (/\ ie = "NRKTVIE"
     /\ pc = "done"
     /\ ~IsNone(inp.page)
     /\ ~IsNone(Val(inp.page).subtitlesurl)
     /\ ~inp.listsubtitles
     /\ (~IsNone(Val(inp.page).media) \/ ~IsNone(Val(inp.page).hls))
     /\ \/ IsNone(inp.captions)
        \/ \E i \in 1..Len(Val(inp.captions).ps) : CueUnparsable(Val(inp.captions).ps[i])) =>
        /\ out.kind = "return"
        /\ out.value # None
        /\ out.value.title = Val(inp.page).title
        /\ out.value.duration = FloatOrNone(Val(inp.page).duration)
        /\ out.value.formats # <<>>
        /\ out.value.subtitles = <<>>

\* C9: a geo-blocked NRK clip ends in the geo-restricted error, which names
\* the countries where the clip can be played, and in no record.
C9_GeoBlockedIsGeoRestricted ==
    (/\ ie = "NRKIE"
     /\ pc = "done"
     /\ ~IsNone(inp.page)
     /\ ~IsNone(inp.data)
     /\ Val(inp.data).isGeoBlocked) =>
        /\ out.kind = "raise"
        /\ out.exc = "GeoRestrictedError"
        /\ "countries" \in DOMAIN out
        /\ out.countries # {}

\* C10: RaiPlayRadioIE either returns a record whose id is the UUID of the
\* URL or raises; it never returns None.
C10_RadioRecordOrError ==
    (ie = "RaiPlayRadioIE" /\ pc = "done") =>
        \/ out.kind = "raise"
        \/ /\ out.kind = "return"
           /\ out.value # None
           /\ out.value.id = inp.audio_id

----------------------------------------------------------------------------
(* Properties of RaiBaseIE, RaiPlayIE and RaiIE *)

\* C1: for an http(s) relinker URL, a result with an empty 'formats' is never
\* returned when a response said geoprotection 'Y': when no response added a
\* format and one of them said 'Y', the call raises the geo-restricted error
\* for the countries ['IT'].
C1_GeoProtectedNeverEmpty ==
    (/\ ie = "RaiBaseIE._extract_relinker_info"
     /\ pc = "done"
     /\ inp.relinker_url[1] \in {"http://", "https://"}) =>
        /\ (Len(log) = 3 /\ ~inp.seen.raised /\ inp.seen.geoY /\ ~inp.seen.anyFormat) =>
              (/\ out.kind = "raise"
               /\ out.exc = "GeoRestrictedError"
               /\ out.countries = {"IT"})
        /\ (out.kind = "return" /\ inp.seen.geoY) => out.value.formats # <<>>

\* Three responses without a format, of which an early one said 'Y'
C1_Witness ==
    /\ ie = "RaiBaseIE._extract_relinker_info"
    /\ pc = "done"
    /\ Len(log) = 3
    /\ ~inp.seen.raised
    /\ inp.seen.geoY
    /\ ~inp.seen.anyFormat
    /\ out.kind = "raise"
    /\ out.exc = "GeoRestrictedError"

\* The sorting policy in the words of the specification: a higher
\* resolution is preferred, then a higher bitrate, then the container; a
\* number that is missing counts as the lowest
Amount(o) == IF o = <<>> THEN 0 - 1 ELSE o[1]

ContainerRank(ext) ==
    CASE ext = <<"mp4">> -> 3 [] ext = <<"flv">> -> 2 [] ext = <<"webm">> -> 1 [] OTHER -> 0

Preferred(g, f) ==
    \/ Amount(g.height) > Amount(f.height)
    \/ /\ Amount(g.height) = Amount(f.height)
       /\ Amount(g.width) > Amount(f.width)
    \/ /\ Amount(g.height) = Amount(f.height)
       /\ Amount(g.width) = Amount(f.width)
       /\ Amount(g.tbr) > Amount(f.tbr)
    \/ /\ Amount(g.height) = Amount(f.height)
       /\ Amount(g.width) = Amount(f.width)
       /\ Amount(g.tbr) = Amount(f.tbr)
       /\ ContainerRank(g.ext) > ContainerRank(f.ext)

\* No format of the list comes before one that it is preferred to
WorstFirst(formats) ==
    \A i, j \in 1..Len(formats) : i < j => ~Preferred(formats[i], formats[j])

\* The list is in the order of the policy, and the sort step gives it back
InSortOrder(formats) ==
    WorstFirst(formats) /\ (formats # <<>> => SortFormats(formats) = Return(formats))

\* The formats of an entry are those of the sizes of its settings file, each
\* once
SameSizes(formats, sizes) ==
    /\ Len(formats) = Len(sizes)
    /\ \A i \in 1..Len(sizes) :
          \E j \in 1..Len(formats) :
              /\ formats[j].height = Some(sizes[i].height)
              /\ formats[j].width = Some(sizes[i].width)
              /\ formats[j].url = SubstituteH(sizes[i].src)

RECURSIVE DropH(_)
DropH(url) ==
    IF url = <<>> THEN <<>>
    ELSE IF Len(url) >= 2 /\ url[1] = "_" /\ url[2] = "h"
         THEN <<"_">> \o DropH(SubSeq(url, 3, Len(url)))
         ELSE <<url[1]>> \o DropH(Tail(url))

\* C2: a trailer whose settings download failed and whose info has url, width
\* and height is in the playlist, with exactly one format made of first_url,
\* width and height; the failure ends neither this trailer nor the call.
C2_FallbackKeepsTrailer ==
    ie = "AppleTrailersIE" =>
        \A k \in 2..Len(log) :
            LET info == Val(inp.doc)[log[k].li]
            IN  (IsNone(log[k].response) /\ ~IsNone(info.width) /\ ~IsNone(info.height)) =>
                    /\ Len(loc.playlist) >= k - 1
                    /\ Len(loc.playlist[k - 1].formats) = 1
                    /\ loc.playlist[k - 1].formats[1].width = info.width
                    /\ loc.playlist[k - 1].formats[1].height = info.height
                    /\ loc.playlist[k - 1].formats[1].url # Val(info.url)
                    /\ DropH(loc.playlist[k - 1].formats[1].url) = Val(info.url)
                    /\ Returned => out.value.entries[k - 1] = loc.playlist[k - 1]

\* The first settings download fails, the second succeeds, both are returned
C2_Witness ==
    /\ ie = "AppleTrailersIE"
    /\ Returned
    /\ Len(log) = 3
    /\ IsNone(log[2].response)
    /\ ~IsNone(log[3].response)
    /\ Len(out.value.entries) = 2
    /\ Len(out.value.entries[1].formats) = 1

\* The ids that re.search finds in the contents of RaiMetas with the pattern
\* of line 429, written out content by content
RaiKnownMetaId(meta) ==
    CASE meta = None -> None
      [] meta = Some(<<>>) -> None
      [] meta = Some(Chars("http://www.rai.it/dl/ContentItem-portale.html")) -> None
      [] meta = Some(Chars("http://www.rai.it/dl/ContentItem-1632c009-c843-4836-bb65-80c33084a64b.html")) ->
             Some(Chars("1632c009-c843-4836-bb65-80c33084a64b"))
      [] meta = Some(Chars("http://www.rai.it/dl/ContentItem-04a9f4bd-b563-40cf-82a6-aad3529cb4a9.html")) ->
             Some(Chars("04a9f4bd-b563-40cf-82a6-aad3529cb4a9"))
      [] meta = Some(Chars("http://www.rai.it/dl/ContentItem-1632C009-C843-4836-BB65-80C33084A64B.html")) ->
             None
      [] meta = Some(Chars("http://www.rai.it/dl/ContentItem-x/ContentItem-1632c009-c843-4836-bb65-80c33084a64b")) ->
             Some(Chars("1632c009-c843-4836-bb65-80c33084a64b"))
      [] meta = Some(Chars("http://www.rai.it/dl/ContentItem-") \o <<"U+0967">>
                     \o Chars("632c009-c843-4836-bb65-80c33084a64b.html")) ->
             Some(<<"U+0967">> \o Chars("632c009-c843-4836-bb65-80c33084a64b"))
      [] meta = Some(Chars("http://www.rai.it/dl/ContentItem-1632") \o <<"U+FF43">>
                     \o Chars("009-c843-4836-bb65-80c33084a64b.html")) -> None

\* The ids that re.search finds in the pages of RaiMarkups with the pattern of
\* lines 434-443, written out page by page
RaiKnownMarkupId(markup) ==
    CASE markup = Chars("<p>ContentItem</p>") -> None
      [] markup = Chars("<div class='a' data-id=\"ContentItem-5a3cd4bb-8eee-4de4-ac0e-78d21db5b600\">") ->
             Some(Chars("5a3cd4bb-8eee-4de4-ac0e-78d21db5b600"))
      [] markup = Chars("<iframe src='/ContentItem-b4a49761-e0cc-4b14-8736-2729f6f73132.html?next=/")
                  \o Chars("ContentItem-5a3cd4bb-8eee-4de4-ac0e-78d21db5b600'>") ->
             Some(Chars("5a3cd4bb-8eee-4de4-ac0e-78d21db5b600"))
      [] markup = Chars("drawMediaRaiTV('a', 'ContentItem-5a3cd4bb-8eee-4de4-ac0e-78d21db5b600')") ->
             None
      [] markup = Chars("var uniquename = \"ContentItem-5a3cd4bb-8eee-4de4-ac0e-78d21db5b600\"") ->
             None
      [] markup = Chars("<div data-id=\"") \o <<"U+00E9">>
                  \o Chars("ContentItem-5a3cd4bb-8eee-4de4-ac0e-78d21db5b600\">") -> None
      [] markup = Chars("<div ") \o <<"U+00E9">>
                  \o Chars("data-id=\"ContentItem-5a3cd4bb-8eee-4de4-ac0e-78d21db5b600\">") -> None
      [] markup = Chars("<iframe src='ContentItem-5a3cd4bb-8eee-4de4-ac0e-78d21db5b60")
                  \o <<"U+0E50">> \o Chars("'>") ->
             Some(Chars("5a3cd4bb-8eee-4de4-ac0e-78d21db5b60") \o <<"U+0E50">>)

\* The content of the metadata tag holds an id
RaiMetaHasId(page) == ~IsNone(RaiKnownMetaId(page.meta))

RaiLogged(entry) == \E i \in 1..Len(log) : log[i] = entry

\* C6: the markup is searched only when the metadata tags gave no id; the
\* first candidate id whose extraction succeeds gives the returned record; and
\* when every candidate fails and the page has no relinker URL the call raises.
C6_ContentIdStrategies ==
    (ie = "RaiIE" /\ ~IsNone(inp.page)) =>
        /\ RaiLogged(<<"search", "meta">>)
        /\ RaiLogged(<<"search", "markup">>) <=> ~RaiMetaHasId(Val(inp.page))
        /\ RaiMetaHasId(Val(inp.page)) =>
              loc.content_item_id = RaiKnownMetaId(Val(inp.page).meta)
        /\ ~RaiMetaHasId(Val(inp.page)) =>
              loc.content_item_id = RaiKnownMarkupId(Val(inp.page).markup)
        /\ \A k \in 1..Len(loc.tried) :
              loc.tried[k].result = "ok" =>
                  /\ k = Len(loc.tried)
                  /\ \A j \in 1..(k - 1) : loc.tried[j].result = "ExtractorError"
                  /\ Returned
                  /\ out.value.id = loc.tried[k].id
        /\ (/\ pc = "done"
            /\ Len(loc.tried) = Len(loc.order)
            /\ \A k \in 1..Len(loc.tried) : loc.tried[k].result = "ExtractorError"
            /\ IsNone(Val(inp.page).relinker)) => out.kind = "raise"

\* The tags give no id, the markup does; the first candidate fails and the
\* second gives the record
C6_Witness ==
    /\ ie = "RaiIE"
    /\ Returned
    /\ Val(inp.page).meta
           = Some(RAI_DL \o CONTENT_ITEM \o RAI_META_ID_FULLWIDTH \o Chars(".html"))
    /\ loc.content_item_id = Some(RAI_MARKUP_ID_THAI)
    /\ RaiLogged(<<"search", "markup">>)
    /\ ~IsNone(loc.content_item_id)
    /\ Len(loc.tried) = 2
    /\ loc.tried[1].result = "ExtractorError"
    /\ loc.tried[2].result = "ok"
    /\ out.value.id = loc.tried[2].id

----------------------------------------------------------------------------
(* Properties of the AppleTrailersIE playlist *)

\* The seconds of a runtime written M:SS, read digit by digit
RuntimeSeconds(runtime) ==
    60 * DigitVal(runtime[1]) + 10 * DigitVal(runtime[3]) + DigitVal(runtime[4])

IsRuntimeMSS(runtime) ==
    /\ Len(runtime) >= 4
    /\ IsDigit(runtime[1]) /\ runtime[2] = ":" /\ IsDigit(runtime[3]) /\ IsDigit(runtime[4])

\* The id part that '<movie>-' precedes, for the titles of AppleInfos
KnownSlug(title) ==
    CASE title = <<"T", "e", "a", "s", "e", "r">> -> <<"t", "e", "a", "s", "e", "r">>
      [] title = <<"T", "r", "a", "i", "l", "e", "r", " ", "2">> ->
             <<"t", "r", "a", "i", "l", "e", "r", "2">>
      [] title = <<"C", "l", "i", "p">> -> <<"c", "l", "i", "p">>

\* posted, written YYYY-MM-DD, without its two dashes
PostedDigits(posted) == SubSeq(posted, 1, 4) \o SubSeq(posted, 6, 7) \o SubSeq(posted, 9, 10)

\* The trailer info that entry k of the playlist was built from
EntryInfo(k) == Val(inp.doc)[log[k + 1].li]

AppleEntryAsClaimed(entry, info) ==
    /\ entry.title = Val(info.title)
    /\ entry.id = inp.movie \o <<"-">> \o KnownSlug(Val(info.title))
    /\ \A i \in (Len(inp.movie) + 2)..Len(entry.id) :
          IsLower(entry.id[i]) \/ IsDigit(entry.id[i])
    /\ entry.uploader_id = inp.company
    /\ IsRuntimeMSS(Val(info.runtime)) =>
          entry.duration = Some(RuntimeSeconds(Val(info.runtime)))
    /\ Len(entry.upload_date) = 8
    /\ AllDigits(entry.upload_date)
    /\ entry.upload_date = PostedDigits(Val(info.posted))
    /\ entry.formats # <<>>

\* C11: the playlist AppleTrailersIE returns has the movie slug as id, and
\* every entry has its trailer's title, the id '<movie>-<lower-cased
\* alphanumeric characters of the title>', the company slug as uploader_id,
\* 60*minutes + seconds of an M:SS runtime as duration, the posted date
\* without dashes as upload date, and a format list that is not empty.
C11_ApplePlaylistFields ==
    ie = "AppleTrailersIE" =>
        /\ Len(loc.playlist) <= Len(log) - 1
        /\ \A k \in 1..Len(loc.playlist) : AppleEntryAsClaimed(loc.playlist[k], EntryInfo(k))
        /\ Returned =>
              /\ out.value.id = AppleMovie
              /\ out.value.entries = loc.playlist

\* A teaser of 2:31 and a trailer of 1:05, both returned
C11_Witness ==
    /\ ie = "AppleTrailersIE"
    /\ Returned
    /\ Len(out.value.entries) = 2
    /\ out.value.entries[1].id = AppleMovie \o <<"-", "t", "e", "a", "s", "e", "r">>
    /\ out.value.entries[1].duration = Some(151)
    /\ out.value.entries[1].upload_date = <<"2", "0", "1", "3", "0", "6", "1", "0">>
    /\ out.value.entries[2].id = AppleMovie \o <<"-", "t", "r", "a", "i", "l", "e", "r", "2">>
    /\ out.value.entries[2].duration = Some(65)

----------------------------------------------------------------------------
(* Properties of AppleTrailersSectionIE *)

\* The titles and feeds of the sections, as _TESTS and _SECTIONS give them
SectionTitle(id) ==
    CASE id = <<"j", "u", "s", "t", "a", "d", "d", "e", "d">> -> "Just Added"
      [] id = <<"e", "x", "c", "l", "u", "s", "i", "v", "e">> -> "Exclusive"
      [] id = <<"j", "u", "s", "t", "h", "d">> -> "Just HD"
      [] id = <<"m", "o", "s", "t", "p", "o", "p", "u", "l", "a", "r">> -> "Most Popular"
      [] id = <<"m", "o", "v", "i", "e", "s", "t", "u", "d", "i", "o", "s">> -> "Movie Studios"
      [] OTHER -> "?"

SectionFeedUrl(id) ==
    CASE id = <<"j", "u", "s", "t", "a", "d", "d", "e", "d">> ->
             "http://trailers.apple.com/trailers/home/feeds/just_added.json"
      [] id = <<"e", "x", "c", "l", "u", "s", "i", "v", "e">> ->
             "http://trailers.apple.com/trailers/home/feeds/exclusive.json"
      [] id = <<"j", "u", "s", "t", "h", "d">> ->
             "http://trailers.apple.com/trailers/home/feeds/just_hd.json"
      [] id = <<"m", "o", "s", "t", "p", "o", "p", "u", "l", "a", "r">> ->
             "http://trailers.apple.com/trailers/home/feeds/most_pop.json"
      [] id = <<"m", "o", "v", "i", "e", "s", "t", "u", "d", "i", "o", "s">> ->
             "http://trailers.apple.com/trailers/home/feeds/studios.json"
      [] OTHER -> "?"

\* C12: for a URL the pattern accepts, the section id is not empty and is a
\* key of _SECTIONS, so that the feed is always requested and neither look-up
\* fails; a returned playlist has that id, the title of the table, and one
\* entry per element of the feed, in feed order; _SECTIONS stays as written.
C12_SectionIdIsKey ==
    /\ sections = SECTIONS
    /\ (ie = "AppleTrailersSectionIE" /\ pc = "done") =>
          LET rest == SubSeq(inp.url, 5, Len(inp.url))
              feed == inp.feed
          IN  /\ Len(log) = 1
              /\ \E i \in 1..Len(SECTIONS) :
                    /\ SECTIONS[i].key # <<>>
                    /\ Len(rest) >= Len(SECTIONS[i].key)
                    /\ SubSeq(rest, 1, Len(SECTIONS[i].key)) = SECTIONS[i].key
                    /\ log[1] = SectionFeedUrl(SECTIONS[i].key)
                    /\ Returned =>
                          /\ out.value.id = SECTIONS[i].key
                          /\ out.value.title = SectionTitle(SECTIONS[i].key)
              /\ Returned =>
                    /\ ~IsNone(feed)
                    /\ Len(out.value.entries) = Len(Val(feed))
                    /\ \A k \in 1..Len(Val(feed)) :
                          out.value.entries[k].url =
                              "http://trailers.apple.com" \o Val(Val(feed)[k].location)
              /\ (~IsNone(feed) /\ \A k \in 1..Len(Val(feed)) : ~IsNone(Val(feed)[k].location))
                    => Returned

\* 'justhd' followed by more characters, and a feed of two different elements
C12_Witness ==
    /\ ie = "AppleTrailersSectionIE"
    /\ Returned
    /\ Len(inp.url) > 4 + 6
    /\ out.value.id = <<"j", "u", "s", "t", "h", "d">>
    /\ out.value.title = "Just HD"
    /\ Len(out.value.entries) = 2
    /\ out.value.entries[1].url = "http://trailers.apple.com/trailers/fox/rio2/"
    /\ out.value.entries[2].url = "http://trailers.apple.com/trailers/wb/manofsteel/"

----------------------------------------------------------------------------
(* Properties of the candidate ids of RaiIE *)

\* C13: a content id found in the page that differs from the id of the URL is
\* tried before the id of the URL, and the returned record is that of the
\* first candidate, in this order, whose extraction succeeds.
C13_DiscoveryOrder ==
    (/\ ie = "RaiIE"
     /\ ~IsNone(loc.content_item_id)
     /\ Val(loc.content_item_id) # inp.video_id) =>
        /\ \A k \in 1..Len(loc.tried) :
              loc.tried[k].id = IF k = 1 THEN Val(loc.content_item_id) ELSE inp.video_id
        /\ (Returned /\ loc.tried # <<>> /\ loc.tried[Len(loc.tried)].result = "ok") =>
              out.value.id = IF Len(loc.tried) = 1 THEN Val(loc.content_item_id)
                             ELSE inp.video_id

RaiJsonRequests == { i \in 1..Len(log) : log[i][1] = "json" }

\* C14: a geo-restricted error of a candidate id ends the call with that
\* error: no further candidate is requested and the relinker URL of the page
\* is not used.  Another extraction error of a candidate is passed over: the
\* next candidate, or after the last one the relinker fallback, is tried.
C14_GeoErrorEndsCall ==
    ie = "RaiIE" =>
        \A k \in 1..Len(loc.tried) :
            /\ loc.tried[k].result = "GeoRestrictedError" =>
                  /\ k = Len(loc.tried)
                  /\ pc = "done"
                  /\ out.kind = "raise"
                  /\ out.exc = "GeoRestrictedError"
                  /\ out.countries = {"IT"}
                  /\ Cardinality(RaiJsonRequests) = k
                  /\ ~RaiLogged(<<"relinker", inp.video_id>>)
            /\ (loc.tried[k].result = "ExtractorError" /\ k = Len(loc.tried) /\ pc = "done") =>
                  /\ k = Len(loc.order)
                  /\ IsNone(Val(inp.page).relinker) \/ RaiLogged(<<"relinker", inp.video_id>>)
                  /\ IsNone(Val(inp.page).relinker) => out.kind = "raise"

\* The first candidate fails with an extraction error, the second is
\* geo-restricted, and the page has a relinker URL that is left unused
C14_Witness ==
    /\ ie = "RaiIE"
    /\ pc = "done"
    /\ Len(loc.tried) = 2
    /\ loc.tried[1].result = "ExtractorError"
    /\ loc.tried[2].result = "GeoRestrictedError"
    /\ ~IsNone(Val(inp.page).relinker)
    /\ out.kind = "raise"
    /\ out.exc = "GeoRestrictedError"

----------------------------------------------------------------------------
(* Properties of the requests of RaiBaseIE._extract_relinker_info *)

\* Every download that was asked for gave a response
RelinkerAllAnswered == Len(inp.seen.durations) = Len(log)

\* C15: an http(s) relinker URL is asked exactly three times, once for each
\* of 'mon', 'flash' and 'native' in this order, whatever the responses that
\* the downloads gave contained.
C15_AlwaysThreeRequests ==
    (/\ ie = "RaiBaseIE._extract_relinker_info"
     /\ pc = "done"
     /\ inp.relinker_url[1] \in {"http://", "https://"}
     /\ RelinkerAllAnswered) =>
        /\ Len(log) = 3
        /\ log = <<"mon", "flash", "native">>

\* What the code does: for an http(s) relinker URL the requests are those for
\* 'mon', 'flash' and 'native', in this order and one at a time; a response
\* without a url element, with the 'video_no_available' URL, with a rejected
\* extension or with formats does not end the loop, and the call ends before
\* the third request only with the exception of a download that failed or of
\* a url element without a text; for another URL no request is issued and
\* the result is the single format with that URL.
C15_ThreeRequestsInOrder ==
    ie = "RaiBaseIE._extract_relinker_info" =>
        /\ Len(log) <= 3
        /\ \A k \in 1..Len(log) : log[k] = <<"mon", "flash", "native">>[k]
        /\ (pc = "done" /\ inp.relinker_url[1] \in {"http://", "https://"} /\ Len(log) < 3) =>
              /\ Len(log) >= 1
              /\ inp.seen.raised
              /\ out.kind = "raise"
              /\ out.exc \in {"ExtractorError", "TypeError"}
              /\ out.exc = "ExtractorError" <=> Len(inp.seen.durations) < Len(log)
        /\ (pc = "done" /\ inp.relinker_url[1] \in {"http://", "https://"} /\ ~inp.seen.raised) =>
              Len(log) = 3
        /\ (pc # "done") => inp.relinker_url[1] \in {"http://", "https://"} /\ ~inp.seen.raised
        /\ inp.relinker_url[1] \notin {"http://", "https://"} =>
              /\ log = <<>>
              /\ Returned
              /\ Len(out.value.formats) = 1
              /\ out.value.formats[1].url = inp.relinker_url

\* The first two platforms gave formats and the third was still asked
C15_Witness ==
    /\ ie = "RaiBaseIE._extract_relinker_info"
    /\ Returned
    /\ log = <<"mon", "flash", "native">>
    /\ out.value.formats = HLS_FORMATS \o HDS_FORMATS

----------------------------------------------------------------------------
(* Properties of RaiBaseIE._extract_subtitles *)

\* The extension and the absolute URL of the subtitle URLs of SubtitleUrls
KnownSubtitle(s) ==
    CASE s = SUB_STL -> [ext |-> <<"s", "t", "l">>, url |-> <<"http://www.rai.it">> \o SUB_STL]
      [] s = SUB_SRT -> [ext |-> <<"s", "r", "t">>, url |-> SUB_SRT]
      [] s = SUB_STL_QUERY ->
             [ext |-> <<"s", "t", "l">>, url |-> <<"http://www.rai.it">> \o SUB_STL_QUERY]
      [] s = SUB_PLAIN -> [ext |-> <<"s", "r", "t">>, url |-> <<"http://www.rai.it">> \o SUB_PLAIN]

\* url with the 'stl' that ends its path replaced by 'srt'
StlReplaced(url) ==
    LET q == { i \in 1..Len(url) : url[i] = "?" }
        n == IF q = {} THEN Len(url) ELSE (CHOOSE i \in q : \A j \in q : i <= j) - 1
    IN  SubSeq(url, 1, n - 3) \o <<"s", "r", "t">> \o SubSeq(url, n + 1, Len(url))

\* The descriptors that _extract_subtitles reads for video_data
DescriptorsOf(video_data) ==
    (IF video_data.subtitlesArray = <<>> THEN <<>> ELSE video_data.subtitlesArray[1])
    \o << [url |-> video_data.subtitles, language |-> <<>>],
          [url |-> video_data.subtitlesUrl, language |-> <<>>] >>

HasSubtitleUrl(d) == d.url.t = "str" /\ d.url.s # <<>>

LangOf(d) == IF d.language = <<>> THEN "it" ELSE d.language[1]

\* What the descriptors of language lang are to add, in their order
RECURSIVE ClaimedSubtitles(_, _)
ClaimedSubtitles(descs, lang) ==
    IF descs = <<>> THEN <<>>
    ELSE (IF HasSubtitleUrl(descs[1]) /\ LangOf(descs[1]) = lang
          THEN LET e == KnownSubtitle(descs[1].url.s)
               IN  <<e>> \o (IF e.ext = <<"s", "t", "l">>
                             THEN <<[ext |-> <<"s", "r", "t">>, url |-> StlReplaced(e.url)]>>
                             ELSE <<>>)
          ELSE <<>>)
         \o ClaimedSubtitles(Tail(descs), lang)

\* C16: the subtitles of a first call hold, under each language, one entry
\* {ext, absolute url} per descriptor with a non-empty string url, followed
\* for an 'stl' entry by one 'srt' entry whose URL is the same URL with its
\* 'stl' replaced by 'srt'; other descriptors add nothing.
C16_SubtitleEntries ==
    (ie = "RaiBaseIE._extract_subtitles" /\ pc # "idle") =>
        LET subtitles == loc.returned[1]
            descs == DescriptorsOf(inp.video_data)
        IN  /\ DOMAIN subtitles \subseteq {"it", "en"}
            /\ \A lang \in {"it", "en"} :
                  IF ClaimedSubtitles(descs, lang) = <<>>
                  THEN lang \notin DOMAIN subtitles
                  ELSE /\ lang \in DOMAIN subtitles
                       /\ subtitles[lang] = ClaimedSubtitles(descs, lang)

\* C17: _extract_subtitles leaves video_data as it was, and a second call
\* with the same video_data returns what the first returned.
C17_SubtitlesPure ==
    ie = "RaiBaseIE._extract_subtitles" =>
        /\ loc.video_data = inp.video_data
        /\ \A k \in 1..Len(loc.returned) : loc.returned[k] = loc.returned[1]

----------------------------------------------------------------------------
(* Properties of RaiPlayRadioBaseIE and RaiPlayPlaylistIE *)

\* data-uniquename without its first twelve characters, 'ContentItem-'
AfterContentItem(uniquename) == SubSeq(uniquename, 13, Len(uniquename))

RadioItemComplete(attrs) ==
    ~IsNone(attrs.title) /\ ~IsNone(attrs.mediapolis) /\ ~IsNone(attrs.uniquename)

\* C18: the id of an entry is its data-uniquename without the leading
\* 'ContentItem-' and with nothing else removed, whatever the first character
\* of the UUID, so that RaiPlayRadioIE returns the entry of the list whose
\* data-uniquename is 'ContentItem-<id of the URL>'.
C18_PrefixRemovedOnly ==
    (/\ ie = "RaiPlayRadioIE"
     /\ pc = "done"
     /\ ~IsNone(inp.webpage)
     /\ \A i \in 1..Len(Val(inp.webpage)) : RadioItemComplete(Val(inp.webpage)[i])
     /\ \E i \in 1..Len(Val(inp.webpage)) :
           AfterContentItem(Val(Val(inp.webpage)[i].uniquename)) = inp.audio_id) =>
        /\ Returned
        /\ out.value # None
        /\ out.value.id = inp.audio_id
        /\ \E i \in 1..Len(Val(inp.webpage)) :
              out.value.id = AfterContentItem(Val(Val(inp.webpage)[i].uniquename))

\* C19: the playlist of a program has one entry per item that has a path_id,
\* in the order of the site (blocks, then the sets of a block, then the items
\* of a set); a set without id, a set whose content-set JSON cannot be
\* downloaded and an item without path_id are passed over, they do not end the
\* call, and one content-set JSON is requested per set that has an id.
RECURSIVE SetsOf(_)
SetsOf(blocks) ==
    IF blocks = <<>> THEN <<>> ELSE blocks[1].sets \o SetsOf(Tail(blocks))

HasSetId(s) == s.id # None /\ s.id # Some("")

RECURSIVE ItemsOf(_)
ItemsOf(sets) ==
    IF sets = <<>> THEN <<>>
    ELSE (IF HasSetId(sets[1]) /\ sets[1].medias # None
          THEN Val(sets[1].medias).items ELSE <<>>) \o ItemsOf(Tail(sets))

HasPathId(m) == m.path_id # None /\ m.path_id # Some(<<>>)

SitePaths(program) ==
    LET items == SelectSeq(ItemsOf(SetsOf(program.blocks)), HasPathId)
    IN  [i \in 1..Len(items) |-> Val(items[i].path_id)]

SiteSetIds(program) ==
    LET sets == SelectSeq(SetsOf(program.blocks), HasSetId)
    IN  [i \in 1..Len(sets) |-> Val(sets[i].id)]

C19_PlaylistInSiteOrder ==
    (ie = "RaiPlayPlaylistIE" /\ pc = "done" /\ inp.program # None) =>
        LET program == Val(inp.program)
            paths == SitePaths(program)
            ids == SiteSetIds(program)
        IN  /\ Returned
            /\ out.value.type = "playlist"
            /\ out.value.id = inp.playlist_id
            /\ out.value.title = program.name
            /\ out.value.description = program.description
            /\ Len(out.value.entries) = Len(paths)
            /\ \A i \in 1..Len(paths) :
                 /\ out.value.entries[i].url = <<RAIPLAY>> \o paths[i]
                 /\ out.value.entries[i].ie_key = "RaiPlay"
                 /\ out.value.entries[i].id = Some(paths[i][2])
            /\ Len(log) = Len(ids) + 1
            /\ \A i \in 1..Len(ids) : log[i + 1] = <<"programmi", inp.playlist_id, ids[i]>>

C19_Witness ==
    /\ ie = "RaiPlayPlaylistIE" /\ pc = "done" /\ inp.program # None
    /\ LET blocks == Val(inp.program).blocks
           sets == SetsOf(blocks)
       IN  /\ Len(blocks) = 2
           /\ \E i, j, k \in 1..Len(sets) :
                /\ i < k /\ j < k
                /\ ~HasSetId(sets[i])
                /\ HasSetId(sets[j]) /\ sets[j].medias = None
                /\ HasSetId(sets[k]) /\ sets[k].medias # None
                /\ \E m \in 1..Len(Val(sets[k].medias).items) :
                     ~HasPathId(Val(sets[k].medias).items[m])
    /\ Returned
    /\ Len(out.value.entries) >= 1

\* C20: parse_list returns the attribute maps of the top-level <li> elements
\* of the page, and of no nested one, in document order, whatever start tags
\* and end tags the page has: elements without an end tag and end tags
\* without a start tag before a <li> included; and _level is never negative.
VOID_ELEMENTS == {"br", "img"}

\* The open elements after an end tag: an end tag closes the innermost open
\* element of its name and the elements inside it, and an end tag without an
\* open element of its name closes nothing
RECURSIVE Closed(_, _)
Closed(open, tag) ==
    IF \A i \in 1..Len(open) : open[i] # tag THEN open
    ELSE IF open[Len(open)] = tag THEN SubSeq(open, 1, Len(open) - 1)
    ELSE Closed(SubSeq(open, 1, Len(open) - 1), tag)

\* The attribute maps of the <li> elements that are inside no other element
RECURSIVE TopLevelItems(_, _)
TopLevelItems(events, open) ==
    IF events = <<>> THEN <<>>
    ELSE LET e == events[1]
         IN  IF e.event = "end" THEN TopLevelItems(Tail(events), Closed(open, e.tag))
             ELSE (IF e.tag = "li" /\ open = <<>> THEN <<e.attrs>> ELSE <<>>)
                  \o TopLevelItems(Tail(events),
                                   IF e.tag \in VOID_ELEMENTS THEN open ELSE Append(open, e.tag))

C20_TopLevelItems ==
    (ie = "HTMLListAttrsParser" /\ pc \in {"feeding", "done"}) =>
        /\ loc._level >= 0
        /\ loc.items = TopLevelItems(inp.events, <<>>)
        /\ pc = "done" => out = Return(TopLevelItems(inp.events, <<>>))

----------------------------------------------------------------------------
(* The two URL reconstructions of AppleTrailersIE *)

\* C21: the URL of the fallback format is first_url with exactly one 'h'
\* inserted, after the underscore that precedes '<digits>p.mov': what the
\* substitution of the settings path makes of first_url, also when first_url
\* has several underscores.
C21_FallbackUrlAsSubstitution ==
    ie = "AppleTrailersIE" =>
        \A k \in 2..Len(log) :
            LET first_url == Val(Val(inp.doc)[log[k].li].url)
            IN  (IsNone(log[k].response) /\ Len(loc.playlist) >= k - 1) =>
                    /\ Len(loc.playlist[k - 1].formats[1].url) = Len(first_url) + 1
                    /\ loc.playlist[k - 1].formats[1].url = SubstituteH(first_url)

----------------------------------------------------------------------------
(* Properties of the flags of RaiBaseIE._extract_relinker_info *)

NonZero(text) == ParseDuration(text) # None /\ ParseDuration(text) # Some(0)

\* C22: after every response, is_live is true exactly when a response so far
\* had is_live 'Y', geoprotection is true exactly when a response so far had
\* geoprotection 'Y', and duration is that of the first response with a
\* non-zero duration, so that no later response changes a value once set;
\* the result carries these values, and has no duration when no response had one.
C22_FlagsLatched ==
    (ie = "RaiBaseIE._extract_relinker_info" /\ IsHttp(inp.relinker_url)) =>
        LET ds == inp.seen.durations
        IN  /\ Len(ds) = Len(log) \/ (Len(ds) = Len(log) - 1 /\ Raised /\ out.exc = "ExtractorError")
            /\ Truthy(loc.is_live) <=> inp.seen.liveY
            /\ Truthy(loc.geoprotection) <=> inp.seen.geoY
            /\ \A i \in 1..Len(ds) :
                 (NonZero(ds[i]) /\ \A j \in 1..(i - 1) : ~NonZero(ds[j])) =>
                     loc.duration = ParseDuration(ds[i])
            /\ (\A i \in 1..Len(ds) : ds[i] = None) => loc.duration = None
            /\ (pc = "done" /\ out.kind = "return") =>
                 /\ Len(ds) = Len(PLATFORMS)
                 /\ out.value.is_live = Some(inp.seen.liveY)
                 /\ out.value.duration = loc.duration
            /\ (pc = "done" /\ out.kind = "raise" /\ out.exc = "GeoRestrictedError") =>
                 inp.seen.geoY

\* The first response is live and has no duration, the second and the third
\* are not live and have two different durations
C22_Witness ==
    /\ ie = "RaiBaseIE._extract_relinker_info"
    /\ Returned
    /\ inp.seen.durations = <<None, Some(DURATION_45), Some(DURATION_90)>>
    /\ inp.seen.liveY
    /\ inp.seen.geoY
    /\ out.value.is_live = Some(TRUE)
    /\ out.value.duration = Some(45)
    /\ loc.geoprotection = Some(TRUE)

====
